---- MODULE Spec2Model ----
(***************************************************************************)
(* RINKO_DBMS: the observation-file sorting tool (app.js, fileHandler.js,  *)
(* dataProcessor.js, uiController.js).  The module models the application  *)
(* state of app.js (stations, cards, the assignment index, cardOrder,      *)
(* swimlaneIds), its handlers, the confirmation dialog of uiController.js, *)
(* the master parser and the CSV tokenizer of fileHandler.js, and the      *)
(* matcher, the two exports and the CSV serializer of dataProcessor.js.    *)
(*                                                                         *)
(* Text is a sequence of one-character strings, so that the conversions    *)
(* (file-name normalisation, keyword matching) are computed and not        *)
(* assumed.  A JavaScript Map is a sequence of entries [key, ids] in       *)
(* insertion order with distinct keys.                                     *)
(***************************************************************************)
EXTENDS Integers, Sequences, FiniteSets, TLC

(***************************************************************************)
(* Bounds of the model.                                                    *)
(***************************************************************************)
\* cardSeq is capped: at most this many cards are ever registered
MaxCardSeq == 3
\* the number of user events (drops, clicks) of the sessions explored
MaxEvents == 4
\* at most this many .csv files in one dropped batch
MaxBatch == 2
\* rows (after the header) of a master file
MaxMasterRows == 3

(***************************************************************************)
(* Text helpers.                                                           *)
(***************************************************************************)
UpperChars == <<"A","B","C","D","E","F","G","H","I","J","K","L","M",
                "N","O","P","Q","R","S","T","U","V","W","X","Y","Z">>
LowerChars == <<"a","b","c","d","e","f","g","h","i","j","k","l","m",
                "n","o","p","q","r","s","t","u","v","w","x","y","z">>
DigitChars == {"0","1","2","3","4","5","6","7","8","9"}

\* String.prototype.toLowerCase on one character
LowerChar(c) ==
  IF \E i \in 1..26 : UpperChars[i] = c
  THEN LowerChars[CHOOSE i \in 1..26 : UpperChars[i] = c]
  ELSE c

toLowerCase(s) == [i \in 1..Len(s) |-> LowerChar(s[i])]

\* \s of a regular expression (the characters of it the model uses)
IsSpace(c) == c \in {" ", "\t"}

\* [a-zA-Z0-9]
IsAlnum(c) ==
  \/ c \in DigitChars
  \/ \E i \in 1..26 : UpperChars[i] = c \/ LowerChars[i] = c

\* the character class [\s\-_#.()[\]]
IsLeadSymbol(c) == IsSpace(c) \/ c \in {"-", "_", "#", ".", "(", ")", "[", "]"}

\* s without its longest prefix of digits (/^\d+/), of lead symbols
RECURSIVE DropWhileDigit(_)
DropWhileDigit(s) ==
  IF s # <<>> /\ Head(s) \in DigitChars THEN DropWhileDigit(Tail(s)) ELSE s

RECURSIVE DropWhileLeadSymbol(_)
DropWhileLeadSymbol(s) ==
  IF s # <<>> /\ IsLeadSymbol(Head(s)) THEN DropWhileLeadSymbol(Tail(s)) ELSE s

\* /\.csv$/i
EndsWithCsv(s) ==
  /\ Len(s) >= 4
  /\ toLowerCase(SubSeq(s, Len(s) - 3, Len(s))) = <<".", "c", "s", "v">>

\* String.prototype.includes
Includes(s, sub) ==
  \E i \in 0..(Len(s) - Len(sub)) : SubSeq(s, i + 1, i + Len(sub)) = sub

\* the non-empty words of s.split(/\s+/): its maximal runs of non-space
SplitWords(s) ==
  { SubSeq(s, i, j) : <<i, j>> \in
      { p \in (1..Len(s)) \X (1..Len(s)) :
          /\ p[1] <= p[2]
          /\ \A k \in p[1]..p[2] : ~IsSpace(s[k])
          /\ (p[1] = 1 \/ IsSpace(s[p[1] - 1]))
          /\ (p[2] = Len(s) \/ IsSpace(s[p[2] + 1])) } }

normalizeFileName(fileName) ==
  LET noExt   == IF EndsWithCsv(fileName)
                 THEN SubSeq(fileName, 1, Len(fileName) - 4) ELSE fileName
      noDigit == DropWhileDigit(noExt)
      noSym   == DropWhileLeadSymbol(noDigit)
      spaced  == [i \in 1..Len(noSym) |-> IF noSym[i] = "_" THEN " " ELSE noSym[i]]
  IN  toLowerCase(spaced)

_matchKeyword(normalizedName, kw) ==
  LET kwLower == toLowerCase(kw)
  IN  IF kwLower # <<>> /\ \A i \in 1..Len(kwLower) : IsAlnum(kwLower[i])
      THEN kwLower \in SplitWords(normalizedName)
      ELSE Includes(normalizedName, kwLower)


(***************************************************************************)
(* JavaScript Map: entries [key, ids] in insertion order, keys distinct.   *)
(* The key '' is the unclassified bucket; NullKey is the key null that     *)
(* _removeCardState passes as toId.                                        *)
(***************************************************************************)
NullKey == "<null>"

MapHas(m, k) == \E i \in 1..Len(m) : m[i].key = k
MapIndex(m, k) == CHOOSE i \in 1..Len(m) : m[i].key = k
MapGet(m, k) == m[MapIndex(m, k)].ids
\* m.get(k) || []
MapGetOrEmpty(m, k) == IF MapHas(m, k) THEN MapGet(m, k) ELSE <<>>
MapSet(m, k, v) ==
  IF MapHas(m, k) THEN [m EXCEPT ![MapIndex(m, k)].ids = v]
  ELSE Append(m, [key |-> k, ids |-> v])
MapDelete(m, k) == SelectSeq(m, LAMBDA e : e.key # k)
MapKeys(m) == [i \in 1..Len(m) |-> m[i].key]

\* Array.prototype.indexOf (0 when absent; positions count from 1)
IndexOf(arr, x) ==
  IF \E i \in 1..Len(arr) : arr[i] = x
  THEN CHOOSE i \in 1..Len(arr) : arr[i] = x /\ \A j \in 1..(i - 1) : arr[j] # x
  ELSE 0
\* arr.splice(i, 1)
RemoveAt(arr, i) == SubSeq(arr, 1, i - 1) \o SubSeq(arr, i + 1, Len(arr))
SeqToSet(arr) == { arr[i] : i \in 1..Len(arr) }

(***************************************************************************)
(* dataProcessor.autoAssignFiles                                           *)
(***************************************************************************)
\* the keyword list a station is matched by
stationKeywords(st) ==
  IF Len(st.keywords) > 0 THEN st.keywords ELSE <<toLowerCase(st.name)>>

\* the inner loop over kws: some keyword is non-empty and matches
stationMatches(normalizedName, st) ==
  LET kws == stationKeywords(st)
  IN  \E i \in 1..Len(kws) : kws[i] # <<>> /\ _matchKeyword(normalizedName, kws[i])

\* the array `matches` built for one card: ids of the matching valid stations
cardMatches(card, stations) ==
  LET normalizedName == normalizeFileName(card.fileName)
      hit == SelectSeq(stations,
               LAMBDA st : ~st.invalid /\ stationMatches(normalizedName, st))
  IN  [i \in 1..Len(hit) |-> hit[i].id]

isUniqueMatch_AnyMatch(matches) == Len(matches) >= 1
\* the decision `matches.length === 1`
isUniqueMatch(matches) == Len(matches) = 1

RECURSIVE autoAssignLoop(_, _, _, _)
autoAssignLoop(cardList, stations, assigned, unclassified) ==
  IF cardList = <<>>
  THEN [assigned |-> assigned, unclassified |-> unclassified]
  ELSE LET card    == Head(cardList)
           matches == cardMatches(card, stations)
       IN  IF isUniqueMatch(matches)
           THEN autoAssignLoop(Tail(cardList), stations,
                  MapSet(assigned, matches[1],
                         Append(MapGetOrEmpty(assigned, matches[1]), card.id)),
                  unclassified)
           ELSE autoAssignLoop(Tail(cardList), stations, assigned,
                  Append(unclassified, card.id))

autoAssignFiles(cardList, stations) ==
  autoAssignLoop(cardList, stations, <<>>, <<>>)

(***************************************************************************)
(* app.js: operations on the application state.  S is the record           *)
(* [stations, cards, assignments, cardOrder, swimlaneIds]; cards maps the  *)
(* ids present in state.cards (card_n is n; Map order is ascending n) to   *)
(* the card objects [id, fileName, parsed, stationId].                     *)
(***************************************************************************)
_moveAssignment(S, cardId, fromId, toId) ==
  LET a1 == IF MapHas(S.assignments, fromId)
            THEN LET arr == MapGet(S.assignments, fromId)
                     idx == IndexOf(arr, cardId)
                 IN  IF idx >= 1
                     THEN MapSet(S.assignments, fromId, RemoveAt(arr, idx))
                     ELSE S.assignments
            ELSE S.assignments
      a2 == IF MapHas(a1, toId) THEN a1 ELSE MapSet(a1, toId, <<>>)
  IN  [S EXCEPT !.assignments = MapSet(a2, toId, Append(MapGet(a2, toId), cardId))]

moveCard_NoStationId(S, cardId, newStationId) ==
  IF cardId \notin DOMAIN S.cards THEN S
  ELSE IF S.cards[cardId].stationId = newStationId THEN S
  ELSE _moveAssignment(S, cardId, S.cards[cardId].stationId, newStationId)

moveCard(S, cardId, newStationId) ==
  IF cardId \notin DOMAIN S.cards THEN S
  ELSE LET oldStationId == S.cards[cardId].stationId
       IN  IF oldStationId = newStationId THEN S
           ELSE LET S1 == _moveAssignment(S, cardId, oldStationId, newStationId)
                IN  [S1 EXCEPT !.cards[cardId].stationId = newStationId]

RECURSIVE moveEach_EveryOther(_, _, _)
moveEach_EveryOther(S, cardIds, stationId) ==
  IF cardIds = <<>> THEN S
  ELSE moveEach_EveryOther(moveCard(S, Head(cardIds), stationId),
                           IF Len(cardIds) >= 2 THEN Tail(Tail(cardIds)) ELSE <<>>,
                           stationId)

\* for (const cardId of cardIds) moveCard(cardId, stationId), cardIds a copy
RECURSIVE moveEach(_, _, _)
moveEach(S, cardIds, stationId) ==
  IF cardIds = <<>> THEN S
  ELSE moveEach(moveCard(S, Head(cardIds), stationId), Tail(cardIds), stationId)

moveCards(S, cardIds, newStationId) == moveEach(S, cardIds, newStationId)

_removeCardState(S, cardId) ==
  IF cardId \notin DOMAIN S.cards THEN S
  ELSE LET S1 == _moveAssignment(S, cardId, S.cards[cardId].stationId, NullKey)
       IN  [S1 EXCEPT
              !.cards = [c \in (DOMAIN S.cards) \ {cardId} |-> S.cards[c]],
              !.cardOrder = IF IndexOf(S.cardOrder, cardId) >= 1
                            THEN RemoveAt(S.cardOrder, IndexOf(S.cardOrder, cardId))
                            ELSE S.cardOrder]

\* assigned.forEach((cardIds, stationId) => { for ... moveCard(cardId, stationId) })
RECURSIVE applyAssigned(_, _)
applyAssigned(S, assigned) ==
  IF assigned = <<>> THEN S
  ELSE applyAssigned(moveEach(S, Head(assigned).ids, Head(assigned).key),
                     Tail(assigned))

\* the stations handed to the matcher
activeStations(S) ==
  SelectSeq(S.stations, LAMBDA s : ~s.invalid /\ s.id \in S.swimlaneIds)

\* unclassIds.map(id => state.cards.get(id)).filter(Boolean)
unclassCards(S) ==
  LET unclassIds == MapGetOrEmpty(S.assignments, "")
      present    == SelectSeq(unclassIds, LAMBDA id : id \in DOMAIN S.cards)
  IN  [i \in 1..Len(present) |-> S.cards[present[i]]]

_autoAssignUnclassified(S) ==
  IF S.swimlaneIds = {} THEN S
  ELSE applyAssigned(S, autoAssignFiles(unclassCards(S), activeStations(S)).assigned)


(***************************************************************************)
(* app.js: _parseDateTimeMs and _calcDepthResolution.  null is <<>> and a  *)
(* number n is <<n>>.                                                      *)
(***************************************************************************)
DigitSeq == <<"0","1","2","3","4","5","6","7","8","9">>
DigitValue(c) == (CHOOSE i \in 1..10 : DigitSeq[i] = c) - 1

\* parseInt of a run of digits
RECURSIVE ParseInt(_)
ParseInt(s) ==
  IF s = <<>> THEN 0
  ELSE 10 * ParseInt(SubSeq(s, 1, Len(s) - 1)) + DigitValue(s[Len(s)])

DigitsAt(s, i, n) ==
  i >= 1 /\ i + n - 1 <= Len(s) /\ \A k \in i..(i + n - 1) : s[k] \in DigitChars
CharAt(s, i, set) == i >= 1 /\ i <= Len(s) /\ s[i] \in set

\* the length, at most n, of the run of digits of s from i on; of blanks
RECURSIVE DigitRun(_, _, _)
DigitRun(s, i, n) ==
  IF n = 0 \/ i < 1 \/ i > Len(s) \/ s[i] \notin DigitChars THEN 0
  ELSE 1 + DigitRun(s, i + 1, n - 1)

RECURSIVE SpaceRun(_, _, _)
SpaceRun(s, i, n) ==
  IF n = 0 \/ i < 1 \/ i > Len(s) \/ ~IsSpace(s[i]) THEN 0
  ELSE 1 + SpaceRun(s, i + 1, n - 1)

\* the match <<i, ml, dl, sl, hl>> at position i of
\* /(\d{4})[\/\-](\d{1,2})[\/\-](\d{1,2})\s+(\d{1,2}):(\d{2}):(\d{2})/ in s:
\* start, and the lengths of month, day, blank run and hour; <<>> for none.
\* Each run ends at a character outside its class, so the lengths of a match
\* at i are unique: the runs are measured one after the other.
MatchHour(s, i, ml, dl, sl, hl) ==
  LET pm == i + 5
      ph == pm + ml + 1 + dl + sl
      pn == ph + hl + 1
  IN  IF /\ DigitsAt(s, i, 4)
         /\ CharAt(s, i + 4, {"/", "-"})
         /\ ml >= 1
         /\ CharAt(s, pm + ml, {"/", "-"})
         /\ dl >= 1
         /\ sl >= 1
         /\ hl >= 1
         /\ CharAt(s, ph + hl, {":"})
         /\ DigitsAt(s, pn, 2)
         /\ CharAt(s, pn + 2, {":"})
         /\ DigitsAt(s, pn + 3, 2)
      THEN <<i, ml, dl, sl, hl>>
      ELSE <<>>
MatchBlank(s, i, ml, dl, sl) ==
  MatchHour(s, i, ml, dl, sl, DigitRun(s, i + 6 + ml + dl + sl, 2))
MatchDay(s, i, ml, dl) ==
  MatchBlank(s, i, ml, dl, SpaceRun(s, i + 6 + ml + dl, Len(s)))
MatchMonth(s, i, ml) == MatchDay(s, i, ml, DigitRun(s, i + 6 + ml, 2))
DateTimeMatchAt(s, i) == MatchMonth(s, i, DigitRun(s, i + 5, 2))

\* the leftmost match from position i on, as String.prototype.match finds it
RECURSIVE DateTimeMatch(_, _)
DateTimeMatch(s, i) ==
  IF i > Len(s) THEN <<>>
  ELSE IF DateTimeMatchAt(s, i) # <<>> THEN DateTimeMatchAt(s, i)
  ELSE DateTimeMatch(s, i + 1)

\* days from 1970-01-01 to the first day of month m (1..12) of year y
DaysFromCivil(y, m) ==
  LET yy  == IF m <= 2 THEN y - 1 ELSE y
      era == yy \div 400
      yoe == yy - era * 400
      mp  == IF m > 2 THEN m - 3 ELSE m + 9
      doy == (153 * mp + 2) \div 5
      doe == yoe * 365 + yoe \div 4 - yoe \div 100 + doy
  IN  era * 146097 + doe - 719468

\* Date.UTC(year, monthIndex, day, h, mi, s) in seconds (the result of Date.UTC
\* is 1000 times this): out-of-range fields carry over, and a year 0..99 means
\* 1900 + year
DateUTC(year, monthIndex, day, h, mi, sec) ==
  LET y1 == IF year >= 0 /\ year <= 99 THEN 1900 + year ELSE year
      ym == y1 + monthIndex \div 12
      mn == monthIndex % 12
      dayNo == DaysFromCivil(ym, mn + 1) + day - 1
  IN  ((dayNo * 24 + h) * 60 + mi) * 60 + sec

_parseDateTimeMs(dtStr) ==
  IF dtStr = <<>> THEN <<>>
  ELSE LET t == DateTimeMatch(dtStr, 1)
       IN  IF t = <<>> THEN <<>>
           ELSE LET i  == t[1]
                    pm == i + 5
                    pd == pm + t[2] + 1
                    ph == pd + t[3] + t[4]
                    pn == ph + t[5] + 1
                IN  << DateUTC(ParseInt(SubSeq(dtStr, i, i + 3)),
                               ParseInt(SubSeq(dtStr, pm, pm + t[2] - 1)) - 1,
                               ParseInt(SubSeq(dtStr, pd, pd + t[3] - 1)),
                               ParseInt(SubSeq(dtStr, ph, ph + t[5] - 1)),
                               ParseInt(SubSeq(dtStr, pn, pn + 1)),
                               ParseInt(SubSeq(dtStr, pn + 3, pn + 4))) >>

\* a resolution is the fraction <<numerator, denominator>>; Infinity is <<1, 0>>
Infinity == <<1, 0>>
\* a < b on fractions with denominators >= 0
FractionLess(a, b) == a[1] * b[2] < b[1] * a[2]

_calcDepthResolution(parsed) ==
  IF parsed.maxDepth = <<>> \/ parsed.maxDepth = <<0>> \/ parsed.nRows = 0
  THEN Infinity
  ELSE <<parsed.maxDepth[1], parsed.nRows>>

(***************************************************************************)
(* fileHandler.parseMasterCSV on a tokenized master file                   *)
(* [columns, rows]: columns is the set of header names, each row the       *)
(* trimmed fields [name, id, keywords] that get() returns ("" and <<>>     *)
(* are the empty string).  The columns are named NAME, ID, CATEGORY.       *)
(***************************************************************************)
requiredCols == {"NAME", "ID", "CATEGORY"}

\* the keys every object literal {} inherits from Object.prototype
ObjectPrototypeKeys ==
  {"constructor", "toString", "valueOf", "hasOwnProperty", "isPrototypeOf",
   "propertyIsEnumerable", "toLocaleString", "__proto__"}

\* idSet[stationId] !== undefined, idSet a plain object
idSetHas(idSet, stationId) ==
  stationId \in DOMAIN idSet \/ stationId \in ObjectPrototypeKeys

\* if (stations[idx]) stations[idx]._invalid = true   (idx counts from 0)
markInvalid(stations, idx) ==
  IF idx + 1 \in 1..Len(stations)
  THEN [stations EXCEPT ![idx + 1].invalid = TRUE]
  ELSE stations

\* the row loop, i the index of the line in `lines` (the header is line 0)
RECURSIVE parseMasterRows(_, _, _, _, _)
parseMasterRows(rows, i, stations, errors, idSet) ==
  IF i > Len(rows) THEN [stations |-> stations, errors |-> errors]
  ELSE LET row == rows[i]
       IN  IF row.name = <<>> \/ row.id = ""
           THEN parseMasterRows(rows, i + 1, stations, errors, idSet)
           ELSE IF idSetHas(idSet, row.id)
           THEN LET own == row.id \in DOMAIN idSet
                    err == [kind |-> "duplicate-id", id |-> row.id,
                            first |-> IF own THEN idSet[row.id] + 2 ELSE 0,
                            current |-> i + 1]
                IN  parseMasterRows(rows, i + 1,
                      IF own THEN markInvalid(stations, idSet[row.id]) ELSE stations,
                      Append(errors, err), idSet)
           ELSE parseMasterRows(rows, i + 1,
                  Append(stations, [id |-> row.id, name |-> row.name,
                                    keywords |-> row.keywords, invalid |-> FALSE]),
                  errors,
                  [k \in (DOMAIN idSet) \cup {row.id} |->
                     IF k = row.id THEN Len(stations) ELSE idSet[k]])

parseMasterCSV_NoColumnCheck(master) ==
  IF Len(master.rows) < 1
  THEN [stations |-> <<>>, errors |-> <<[kind |-> "no-header"]>>]
  ELSE parseMasterRows(master.rows, 1, <<>>, <<>>, <<>>)

parseMasterCSV(master) ==
  IF Len(master.rows) < 1
  THEN [stations |-> <<>>, errors |-> <<[kind |-> "no-header"]>>]
  ELSE IF requiredCols \ master.columns # {}
  THEN [stations |-> <<>>, errors |-> <<[kind |-> "missing-columns"]>>]
  ELSE parseMasterRows(master.rows, 1, <<>>, <<>>, <<>>)


(***************************************************************************)
(* app.js: registering, overwriting and removing cards.  The results are   *)
(* records [S, cardSeq, ...]: the state and the counter after the call.    *)
(***************************************************************************)
ZeroRows == "zero-data-rows"
NoHeader == "header-row-not-found"
NoError  == "none"

\* returns the new card's id in `card`, 0 for null
_registerParsedCard(S, seq, fileName, parsed) ==
  IF parsed.error = ZeroRows THEN [S |-> S, cardSeq |-> seq, card |-> 0]
  ELSE LET cardId == seq + 1
           card   == [id |-> cardId, fileName |-> fileName, parsed |-> parsed,
                      stationId |-> ""]
           a1     == IF MapHas(S.assignments, "") THEN S.assignments
                     ELSE MapSet(S.assignments, "", <<>>)
           S1     == [S EXCEPT
                        !.cards = [c \in (DOMAIN S.cards) \cup {cardId} |->
                                     IF c = cardId THEN card ELSE S.cards[c]],
                        !.cardOrder = Append(S.cardOrder, cardId),
                        !.assignments = MapSet(a1, "", Append(MapGet(a1, ""), cardId))]
       IN  [S |-> S1, cardSeq |-> cardId, card |-> cardId]

\* oldCard is the card object the caller holds: its id and its stationId
_overwriteCard(S, seq, oldCardId, savedStationId, fileName, parsed) ==
  LET S1 == _removeCardState(S, oldCardId)
      r  == _registerParsedCard(S1, seq, fileName, parsed)
  IN  IF r.card # 0 /\ savedStationId # ""
      THEN [r EXCEPT !.S = moveCard(r.S, r.card, savedStationId)]
      ELSE r

removeFile(S, cardId) ==
  IF cardId \notin DOMAIN S.cards THEN S
  ELSE LET stationId == S.cards[cardId].stationId
           a1 == IF MapHas(S.assignments, stationId)
                 THEN LET cardIds == MapGet(S.assignments, stationId)
                          idx     == IndexOf(cardIds, cardId)
                      IN  IF idx # 0
                          THEN MapSet(S.assignments, stationId, RemoveAt(cardIds, idx))
                          ELSE S.assignments
                 ELSE S.assignments
       IN  [S EXCEPT
              !.assignments = a1,
              !.cardOrder = IF IndexOf(S.cardOrder, cardId) # 0
                            THEN RemoveAt(S.cardOrder, IndexOf(S.cardOrder, cardId))
                            ELSE S.cardOrder,
              !.cards = [c \in (DOMAIN S.cards) \ {cardId} |-> S.cards[c]]]

\* the ids of state.cards in Map order (ascending card number) up to card n
RECURSIVE CardsInOrder(_, _)
CardsInOrder(S, n) ==
  IF n = 0 THEN <<>>
  ELSE IF n \in DOMAIN S.cards THEN Append(CardsInOrder(S, n - 1), n)
  ELSE CardsInOrder(S, n - 1)

\* [...state.cards.values()].filter(c => c.fileName === file.name)
sameNameCards(S, seq, fileName) ==
  SelectSeq(CardsInOrder(S, seq), LAMBDA c : S.cards[c].fileName = fileName)

\* Array.prototype.find on the hits of a filter; 0 for undefined
find(hits) == IF hits = <<>> THEN 0 ELSE hits[1]

conflictCardOf_None(S, seq, file) == 0
\* sameNameCards.find(c => existDate === newDate); 0 for undefined
conflictCardOf(S, seq, file) ==
  find(SelectSeq(sameNameCards(S, seq, file.fileName),
         LAMBDA c : S.cards[c].parsed.firstDateTime = file.parsed.firstDateTime))

\* existMs !== null && existMs === newMs
sameInstant(existMs, newMs) == existMs # <<>> /\ existMs = newMs

\* the find() of the same-start-time check, given newMs; 0 for undefined
sameDtCardAt(S, seq, fileName, newMs) ==
  IF newMs = <<>> THEN 0
  ELSE find(SelectSeq(CardsInOrder(S, seq),
              LAMBDA c : /\ S.cards[c].fileName # fileName
                         /\ sameInstant(_parseDateTimeMs(S.cards[c].parsed.firstDateTime),
                                        newMs)))
sameDtCardOf(S, seq, file) ==
  sameDtCardAt(S, seq, file.fileName, _parseDateTimeMs(file.parsed.firstDateTime))

\* the return of _loadSingleObsFile, or the confirmation it awaits
done(r) == [S |-> r.S, cardSeq |-> r.cardSeq, outcome |-> "done", conflict |-> 0]
askOverwrite(S, seq, conflictCard) ==
  [S |-> S, cardSeq |-> seq, outcome |-> "dialog", conflict |-> conflictCard]

\* the branches of _loadSingleObsFile, given the results of its searches.  The
\* replacement of a superseded card is, statement for statement, the body of
\* _overwriteCard.
loadBranch(S, seq, overwriteAll, file, sameName, conflictCard, sameDtCard) ==
  IF sameName # <<>>
  THEN IF conflictCard = 0
       THEN done(_registerParsedCard(S, seq, file.fileName, file.parsed))
       ELSE IF overwriteAll
       THEN done(_overwriteCard(S, seq, conflictCard,
                   S.cards[conflictCard].stationId, file.fileName, file.parsed))
       ELSE askOverwrite(S, seq, conflictCard)
  ELSE IF sameDtCard # 0
  THEN IF FractionLess(_calcDepthResolution(file.parsed),
                       _calcDepthResolution(S.cards[sameDtCard].parsed))
       THEN done(_overwriteCard(S, seq, sameDtCard,
                   S.cards[sameDtCard].stationId, file.fileName, file.parsed))
       ELSE done([S |-> S, cardSeq |-> seq])
  ELSE done(_registerParsedCard(S, seq, file.fileName, file.parsed))

\* _loadSingleObsFile from the end of the read to its return or to the
\* confirmation it awaits: outcome "dialog" names the conflict card
_loadSingleObsFile(S, seq, overwriteAll, file) ==
  loadBranch(S, seq, overwriteAll, file,
             sameNameCards(S, seq, file.fileName),
             conflictCardOf(S, seq, file),
             sameDtCardOf(S, seq, file))

(***************************************************************************)
(* app.js: _doLoadMaster after the read, up to its trailing call of        *)
(* _autoAssignUnclassified.                                                *)
(***************************************************************************)
\* for (const cid of cardIds) _moveAssignment(cid, sid, ''), where cardIds is
\* the very array _moveAssignment splices: i is the iterator's position
RECURSIVE moveLiveBucket(_, _, _)
moveLiveBucket(S, sid, i) ==
  LET cardIds == MapGetOrEmpty(S.assignments, sid)
  IN  IF i > Len(cardIds) THEN S
      ELSE moveLiveBucket(_moveAssignment(S, cardIds[i], sid, ""), sid, i + 1)

\* state.assignments.forEach over the keys other than ''
RECURSIVE resetBuckets(_, _)
resetBuckets(S, keys) ==
  IF keys = <<>> THEN S
  ELSE IF Head(keys) = "" THEN resetBuckets(S, Tail(keys))
  ELSE resetBuckets(moveLiveBucket(S, Head(keys), 1), Tail(keys))

\* the loop over existingIds of the diff mode
RECURSIVE diffRemoved(_, _, _)
diffRemoved(S, existing, newIds) ==
  IF existing = <<>> THEN S
  ELSE LET sid == Head(existing)
       IN  IF sid \in newIds THEN diffRemoved(S, Tail(existing), newIds)
           ELSE LET S1 == moveLiveBucket(S, sid, 1)
                IN  diffRemoved([S1 EXCEPT !.swimlaneIds = @ \ {sid}],
                                Tail(existing), newIds)

stationIds(stations) == { stations[i].id : i \in 1..Len(stations) }

\* applied is FALSE when the load returns before changing the state
_doLoadMaster(S, mode, master) ==
  LET parsed == parseMasterCSV(master)
  IN  IF Len(parsed.stations) = 0 THEN [S |-> S, applied |-> FALSE]
      ELSE IF mode = "reset"
      THEN LET S1 == resetBuckets(S, MapKeys(S.assignments))
           IN  [S |-> [S1 EXCEPT !.stations = parsed.stations,
                                 !.swimlaneIds = {},
                                 !.assignments = <<>>],
                applied |-> TRUE]
      ELSE LET existing == [i \in 1..Len(S.stations) |-> S.stations[i].id]
               S1 == diffRemoved(S, existing, stationIds(parsed.stations))
           IN  [S |-> [S1 EXCEPT !.stations = parsed.stations], applied |-> TRUE]

(***************************************************************************)
(* app.js: the station form, deleting stations and swimlanes.              *)
(***************************************************************************)
hasDuplicateId_NoCheck(S, editingId, id) == FALSE
\* state.stations.find(s => s.id === id && s.id !== editingId)
hasDuplicateId(S, editingId, id) ==
  \E i \in 1..Len(S.stations) : S.stations[i].id = id /\ S.stations[i].id # editingId

\* editingId "" adds a station; name and id are the trimmed form fields
saveStationForm(S, editingId, name, id, keywords) ==
  IF name = <<>> \/ id = "" THEN S
  ELSE IF hasDuplicateId(S, editingId, id) THEN S
  ELSE LET stationData == [id |-> id, name |-> name, keywords |-> keywords,
                           invalid |-> FALSE]
       IN  IF editingId # ""
           THEN IF \E i \in 1..Len(S.stations) : S.stations[i].id = editingId
                THEN LET idx == CHOOSE i \in 1..Len(S.stations) :
                                  /\ S.stations[i].id = editingId
                                  /\ \A j \in 1..(i - 1) : S.stations[j].id # editingId
                     IN  [S EXCEPT !.stations[idx] = stationData]
                ELSE S
           ELSE [S EXCEPT !.stations = Append(@, stationData),
                          !.swimlaneIds = @ \cup {id}]

\* the callback of the delete button of deleteStation
deleteStation(S, stationId) ==
  LET S1 == moveEach(S, MapGetOrEmpty(S.assignments, stationId), "")
  IN  [S1 EXCEPT !.swimlaneIds = @ \ {stationId},
                 !.stations = SelectSeq(@, LAMBDA s : s.id # stationId),
                 !.assignments = MapDelete(@, stationId)]

\* the callback of the release button of deleteSwimlane
deleteSwimlane(S, stationId) ==
  LET S1 == moveEach(S, MapGetOrEmpty(S.assignments, stationId), "")
  IN  [S1 EXCEPT !.swimlaneIds = @ \ {stationId},
                 !.assignments = MapDelete(@, stationId)]

\* for (const cid of [...cardIds]) { _moveAssignment(cid, sid, ''); card.stationId = '' }
RECURSIVE resetBucketCopy(_, _, _)
resetBucketCopy(S, sid, cardIds) ==
  IF cardIds = <<>> THEN S
  ELSE LET cid == Head(cardIds)
           S1  == _moveAssignment(S, cid, sid, "")
           S2  == IF cid \in DOMAIN S1.cards
                  THEN [S1 EXCEPT !.cards[cid].stationId = ""] ELSE S1
       IN  resetBucketCopy(S2, sid, Tail(cardIds))

RECURSIVE resetAllBuckets(_, _)
resetAllBuckets(S, keys) ==
  IF keys = <<>> THEN S
  ELSE IF Head(keys) = "" THEN resetAllBuckets(S, Tail(keys))
  ELSE resetAllBuckets(
         resetBucketCopy(S, Head(keys), MapGetOrEmpty(S.assignments, Head(keys))),
         Tail(keys))

\* the callback of the reset button of onResetMasterClick
onResetMasterClick(S) ==
  LET S1 == resetAllBuckets(S, MapKeys(S.assignments))
  IN  [S1 EXCEPT !.swimlaneIds = {},
                 !.assignments = SelectSeq(@, LAMBDA e : e.key = "")]

\* addSwimlane up to its call of _autoAssignUnclassified; S when it returns early
addSwimlane(S, stationId) ==
  IF stationId \in S.swimlaneIds THEN S
  ELSE IF ~\E i \in 1..Len(S.stations) :
             S.stations[i].id = stationId /\ ~S.stations[i].invalid THEN S
  ELSE [S EXCEPT !.swimlaneIds = @ \cup {stationId}]

\* addAllSwimlanes up to its call of _autoAssignUnclassified
addAllSwimlanes(S) ==
  LET targets == SelectSeq(S.stations,
                   LAMBDA s : ~s.invalid /\ s.id \notin S.swimlaneIds)
  IN  [S EXCEPT !.swimlaneIds = @ \cup stationIds(targets)]


(***************************************************************************)
(* Inputs of the model: file names, parsed observation files, master files *)
(* and station-form contents.                                              *)
(***************************************************************************)
\* "01_B.csv" normalises to "b", "a_b.csv" to "a b"
NameB  == <<"0", "1", "_", "B", ".", "c", "s", "v">>
NameAB == <<"a", "_", "b", ".", "C", "S", "V">>

\* two spellings of one instant
Date1  == <<"2","0","1","8","/","0","6","/","1","4"," ","8",":","4","2",":","1","8">>
Date1p == <<"2","0","1","8","/","0","6","/","1","4"," ","0","8",":","4","2",":","1","8">>

ParsedOk(dt, depth, n) ==
  [firstDateTime |-> dt, error |-> NoError, maxDepth |-> <<depth>>, nRows |-> n,
   warningFallback |-> FALSE]
\* what parseObservationCSV returns early: no rows, no date, no depth
ParsedError(err, fallback) ==
  [firstDateTime |-> <<>>, error |-> err, maxDepth |-> <<>>, nRows |-> 0,
   warningFallback |-> fallback]

FileB1   == [fileName |-> NameB,  parsed |-> ParsedOk(Date1, 10, 2)]
FileAB   == [fileName |-> NameAB, parsed |-> ParsedOk(Date1p, 10, 4)]
FileErr  == [fileName |-> NameB,  parsed |-> ParsedError(NoHeader, TRUE)]
FileZero == [fileName |-> NameB,  parsed |-> ParsedError(ZeroRows, FALSE)]
Files == {FileB1, FileAB, FileErr, FileZero}
NoFile == [fileName |-> <<>>, parsed |-> ParsedError(NoError, FALSE)]

Row(name, id) == [name |-> name, id |-> id, keywords |-> <<>>]
MasterOf(rows) == [columns |-> requiredCols, rows |-> rows]
MasterA   == MasterOf(<<Row(<<"A">>, "A")>>)
MasterDup == MasterOf(<<Row(<<"A">>, "A"), Row(<<"b">>, "B"), Row(<<"x">>, "A")>>)
MasterBad == [columns |-> {"NAME", "ID"}, rows |-> <<Row(<<"A">>, "A")>>]
Masters == {MasterA, MasterDup, MasterBad}

FormInputs == { [name |-> <<"b">>, id |-> "B", keywords |-> <<>>] }

\* the asynchronous flows of loadObservationFiles that may be in progress
Flows == {1, 2}

(***************************************************************************)
(* The state machine.                                                      *)
(*   state            the object `state` of app.js                         *)
(*   cardSeq          the counter of card ids                              *)
(*   obsOverwriteAll  the flag of the overwrite-all button                 *)
(*   flows            the position of each loadObservationFiles call       *)
(*   masterLoad       the mode of the _doLoadMaster call awaiting its read *)
(*   dialog           the confirmation the dialog element shows            *)
(*   task             what the running handler still has to do             *)
(*   events           the number of user events handled so far             *)
(*   last             the step taken last and the cards it moved (history, *)
(*                    read by no action)                                   *)
(*   call             the call of a pure function under study: its         *)
(*                    argument and its result (none in the application)    *)
(* A handler runs to its next await of a read or of a confirmation.  The   *)
(* continuation after `await _loadSingleObsFile(...)` (flow position       *)
(* "next") and the trailing call of _autoAssignUnclassified (task          *)
(* "autoAssign") are steps of their own that no other action can precede:  *)
(* every other action requires ~Busy.                                      *)
(***************************************************************************)
VARIABLES state, cardSeq, obsOverwriteAll, flows, masterLoad, dialog, task, events,
          last, call

vars == <<state, cardSeq, obsOverwriteAll, flows, masterLoad, dialog, task, events,
          last, call>>

IdleFlow ==
  [pc |-> "idle", remaining |-> 0, isMultiple |-> FALSE, file |-> NoFile,
   conflictCard |-> 0, detached |-> FALSE, conflictSid |-> ""]
\* a flow whose confirmation was closed or replaced: its promise never resolves
OrphanFlow == [IdleFlow EXCEPT !.pc = "orphaned"]

NoDialog == [kind |-> "none", sid |-> "", flow |-> 0]

Busy == task # "idle" \/ \E f \in Flows : flows[f].pc = "next"

\* the confirmation is a modal overlay (uiController.setupModalOutsideClick):
\* while it is shown the page below takes no click and no drop
Interactive == ~Busy /\ dialog.kind = "none" /\ events < MaxEvents

NoCall == [fn |-> "none", arg |-> <<>>, result |-> <<>>]

\* the initial values of the variables of the application
InitApp ==
  /\ state = [stations |-> <<>>, cards |-> <<>>, assignments |-> <<>>,
              cardOrder |-> <<>>, swimlaneIds |-> {}]
  /\ cardSeq = 0
  /\ obsOverwriteAll = FALSE
  /\ flows = [f \in Flows |-> IdleFlow]
  /\ masterLoad = "none"
  /\ dialog = NoDialog
  /\ task = "idle"
  /\ events = 0
  /\ last = [step |-> "Init", cards |-> {}]

Init == InitApp /\ call = NoCall

\* a step of the application named `name` that moved the cards cs
StepOn(name, cs) == last' = [step |-> name, cards |-> cs] /\ UNCHANGED call
Step(name) == StepOn(name, {})

\* the cards of S listed in the bucket of key k
CardsIn(S, k) == SeqToSet(MapGetOrEmpty(S.assignments, k)) \cap DOMAIN S.cards

\* uiController.showConfirm replaces what the dialog shows: a flow awaiting the
\* confirmation shown before is never resumed
Orphaned(fl) == [f \in Flows |-> IF fl[f].pc = "dialog" THEN OrphanFlow ELSE fl[f]]

\* a pending overwrite confirmation holds its conflict card object: when the
\* card leaves state.cards the object keeps the stationId it had
Detached(fl, S, S2) ==
  [f \in Flows |->
     IF /\ fl[f].pc = "dialog"
        /\ fl[f].conflictCard \in (DOMAIN S.cards) \ (DOMAIN S2.cards)
     THEN [fl[f] EXCEPT !.detached = TRUE,
                        !.conflictSid = S.cards[fl[f].conflictCard].stationId]
     ELSE fl[f]]

\* loadObservationFiles with n .csv files, up to the first read
DropObservationFiles(f, n) ==
  /\ Interactive
  /\ events' = events + 1
  /\ flows[f].pc = "idle"
  /\ obsOverwriteAll' = FALSE
  /\ flows' = [flows EXCEPT ![f] = [IdleFlow EXCEPT !.pc = "reading",
                                                    !.remaining = n - 1,
                                                    !.isMultiple = (n > 1)]]
  /\ UNCHANGED <<state, cardSeq, masterLoad, dialog, task>>
  /\ Step("DropObservationFiles")

ObsReadFail_AbortBatch(f) ==
  /\ ~Busy
  /\ flows[f].pc = "reading"
  /\ flows' = [flows EXCEPT ![f] = IdleFlow]
  /\ UNCHANGED <<state, cardSeq, obsOverwriteAll, masterLoad, dialog, task, events>>
  /\ Step("ObsReadFail")

\* the read of the current file fails: _loadSingleObsFile returns
ObsReadFail(f) ==
  /\ ~Busy
  /\ flows[f].pc = "reading"
  /\ flows' = [flows EXCEPT ![f].pc = "next"]
  /\ UNCHANGED <<state, cardSeq, obsOverwriteAll, masterLoad, dialog, task, events>>
  /\ Step("ObsReadFail")

\* the read of the current file ends with the parsed file; r is what
\* _loadSingleObsFile does with it
ObsReadResult(f, file, r) ==
  /\ r.cardSeq <= MaxCardSeq
  /\ state' = r.S
  /\ cardSeq' = r.cardSeq
  /\ IF r.outcome = "dialog"
     THEN /\ dialog' = [kind |-> "overwrite", sid |-> "", flow |-> f]
          /\ flows' = [Orphaned(flows) EXCEPT
                         ![f] = [flows[f] EXCEPT !.pc = "dialog",
                                                 !.file = file,
                                                 !.conflictCard = r.conflict]]
     ELSE /\ dialog' = dialog
          /\ flows' = [Detached(flows, state, r.S) EXCEPT ![f].pc = "next"]

ObsReadDone(f, file) ==
  /\ ~Busy
  /\ flows[f].pc = "reading"
  /\ ObsReadResult(f, file, _loadSingleObsFile(state, cardSeq, obsOverwriteAll, file))
  /\ UNCHANGED <<obsOverwriteAll, masterLoad, task, events>>
  /\ Step("ObsReadDone")

\* the stationId of the conflict card object the confirmation of flow fl holds
conflictStationId(S, fl) ==
  IF fl.detached THEN fl.conflictSid ELSE S.cards[fl.conflictCard].stationId

\* the callback of a button: r is the state and the counter it leaves
OverwriteResult(f, fl, r) ==
  /\ r.cardSeq <= MaxCardSeq
  /\ state' = r.S
  /\ cardSeq' = r.cardSeq
  /\ flows' = [Detached(flows, state, r.S) EXCEPT
                 ![f] = [IdleFlow EXCEPT !.pc = "next",
                                         !.remaining = fl.remaining,
                                         !.isMultiple = fl.isMultiple]]

\* a button of the overwrite confirmation of flow f
ConfirmOverwrite(f, button) ==
  /\ ~Busy
  /\ dialog.kind = "overwrite" /\ dialog.flow = f
  /\ button \in {"overwrite", "skip"} \cup
                (IF flows[f].isMultiple THEN {"overwriteAll"} ELSE {})
  /\ OverwriteResult(f, flows[f],
       IF button = "skip" THEN [S |-> state, cardSeq |-> cardSeq]
       ELSE _overwriteCard(state, cardSeq, flows[f].conflictCard,
                           conflictStationId(state, flows[f]),
                           flows[f].file.fileName, flows[f].file.parsed))
  /\ obsOverwriteAll' = (IF button = "overwriteAll" THEN TRUE ELSE obsOverwriteAll)
  /\ dialog' = NoDialog
  /\ UNCHANGED <<masterLoad, task, events>>
  /\ Step(IF button = "skip" THEN "SkipOverwrite" ELSE "ConfirmOverwrite")

Continue_AutoAssignEachFile(f) ==
  /\ flows[f].pc = "next"
  /\ IF flows[f].remaining > 0
     THEN flows' = [flows EXCEPT ![f].pc = "reading", ![f].remaining = @ - 1]
     ELSE flows' = [flows EXCEPT ![f] = IdleFlow]
  /\ task' = "autoAssign"
  /\ UNCHANGED <<state, cardSeq, obsOverwriteAll, masterLoad, dialog, events>>
  /\ Step("Continue")

\* the loop of loadObservationFiles after `await _loadSingleObsFile`
Continue(f) ==
  /\ flows[f].pc = "next"
  /\ IF flows[f].remaining > 0
     THEN /\ flows' = [flows EXCEPT ![f].pc = "reading", ![f].remaining = @ - 1]
          /\ task' = task
     ELSE /\ flows' = [flows EXCEPT ![f] = IdleFlow]
          /\ task' = "autoAssign"
  /\ UNCHANGED <<state, cardSeq, obsOverwriteAll, masterLoad, dialog, events>>
  /\ Step("Continue")

\* the call of _autoAssignUnclassified that ends the running handler
AutoAssignStep ==
  /\ task = "autoAssign"
  /\ state' = _autoAssignUnclassified(state)
  /\ task' = "idle"
  /\ UNCHANGED <<cardSeq, obsOverwriteAll, flows, masterLoad, dialog, events>>
  /\ StepOn("AutoAssignStep",
            { c \in DOMAIN state.cards :
                state'.cards[c].stationId # state.cards[c].stationId })

\* the public autoAssignUnclassified
AutoAssignClick ==
  /\ Interactive
  /\ events' = events + 1
  /\ state.swimlaneIds # {}
  /\ task' = "autoAssign"
  /\ UNCHANGED <<state, cardSeq, obsOverwriteAll, flows, masterLoad, dialog>>
  /\ Step("AutoAssignClick")

\* a drop of one card on a swimlane or on the unclassified area
MoveCard(c, sid) ==
  /\ Interactive
  /\ events' = events + 1
  /\ c \in DOMAIN state.cards
  /\ sid \in state.swimlaneIds \cup {""}
  /\ state' = moveCard(state, c, sid)
  /\ UNCHANGED <<cardSeq, obsOverwriteAll, flows, masterLoad, dialog, task>>
  /\ Step("MoveCard")

\* a drop of two selected cards
MoveCards(c1, c2, sid) ==
  /\ Interactive
  /\ events' = events + 1
  /\ c1 \in DOMAIN state.cards /\ c2 \in DOMAIN state.cards /\ c1 # c2
  /\ sid \in state.swimlaneIds \cup {""}
  /\ state' = moveCards(state, <<c1, c2>>, sid)
  /\ UNCHANGED <<cardSeq, obsOverwriteAll, flows, masterLoad, dialog, task>>
  /\ Step("MoveCards")

\* removeFile, the native confirm() answered yes
RemoveFile(c) ==
  /\ Interactive
  /\ events' = events + 1
  /\ c \in DOMAIN state.cards
  /\ state' = removeFile(state, c)
  /\ flows' = Detached(flows, state, state')
  /\ UNCHANGED <<cardSeq, obsOverwriteAll, masterLoad, dialog, task>>
  /\ Step("RemoveFile")

\* loadMasterFile: asks for the mode when a master is loaded, else reads
LoadMasterFile ==
  /\ Interactive
  /\ events' = events + 1
  /\ masterLoad = "none"
  /\ IF Len(state.stations) > 0
     THEN /\ dialog' = [kind |-> "master", sid |-> "", flow |-> 0]
          /\ flows' = Orphaned(flows)
          /\ masterLoad' = masterLoad
     ELSE /\ masterLoad' = "reset"
          /\ UNCHANGED <<dialog, flows>>
  /\ UNCHANGED <<state, cardSeq, obsOverwriteAll, task>>
  /\ Step("LoadMasterFile")

\* the reset or the diff button of the master confirmation
ChooseMasterMode(mode) ==
  /\ ~Busy
  /\ dialog.kind = "master"
  /\ masterLoad = "none"
  /\ masterLoad' = mode
  /\ dialog' = NoDialog
  /\ UNCHANGED <<state, cardSeq, obsOverwriteAll, flows, task, events>>
  /\ Step("ChooseMasterMode")

\* the read of _doLoadMaster ends with the master file
MasterReadDone(master) ==
  /\ ~Busy
  /\ masterLoad # "none"
  /\ LET r == _doLoadMaster(state, masterLoad, master)
     IN  /\ state' = r.S
         /\ task' = IF r.applied THEN "autoAssign" ELSE "idle"
  /\ masterLoad' = "none"
  /\ UNCHANGED <<cardSeq, obsOverwriteAll, flows, dialog, events>>
  /\ Step("MasterReadDone")

\* the save button of the station form (editingId "" adds)
SaveStationForm(editingId, form) ==
  /\ Interactive
  /\ events' = events + 1
  /\ editingId \in stationIds(state.stations) \cup {""}
  /\ state' = saveStationForm(state, editingId, form.name, form.id, form.keywords)
  /\ UNCHANGED <<cardSeq, obsOverwriteAll, flows, masterLoad, dialog, task>>
  /\ Step("SaveStationForm")

\* deleteStation, deleteSwimlane, onResetMasterClick: each shows a confirmation
AskDelete(kind, sid) ==
  /\ Interactive
  /\ events' = events + 1
  /\ \/ kind = "deleteStation" /\ sid \in stationIds(state.stations)
     \/ kind = "deleteSwimlane" /\ sid \in stationIds(state.stations)
                                /\ sid \in state.swimlaneIds
     \/ kind = "resetSwimlanes" /\ sid = ""
  /\ dialog' = [kind |-> kind, sid |-> sid, flow |-> 0]
  /\ flows' = Orphaned(flows)
  /\ UNCHANGED <<state, cardSeq, obsOverwriteAll, masterLoad, task>>
  /\ Step("AskDelete")

ConfirmDeleteStation ==
  /\ ~Busy
  /\ dialog.kind = "deleteStation"
  /\ state' = deleteStation(state, dialog.sid)
  /\ dialog' = NoDialog
  /\ UNCHANGED <<cardSeq, obsOverwriteAll, flows, masterLoad, task, events>>
  /\ StepOn("ConfirmDeleteStation", CardsIn(state, dialog.sid))

ConfirmDeleteSwimlane ==
  /\ ~Busy
  /\ dialog.kind = "deleteSwimlane"
  /\ state' = deleteSwimlane(state, dialog.sid)
  /\ dialog' = NoDialog
  /\ UNCHANGED <<cardSeq, obsOverwriteAll, flows, masterLoad, task, events>>
  /\ StepOn("ConfirmDeleteSwimlane", CardsIn(state, dialog.sid))

ConfirmResetSwimlanes ==
  /\ ~Busy
  /\ dialog.kind = "resetSwimlanes"
  /\ state' = onResetMasterClick(state)
  /\ dialog' = NoDialog
  /\ UNCHANGED <<cardSeq, obsOverwriteAll, flows, masterLoad, task, events>>
  /\ Step("ConfirmResetSwimlanes")

\* a click outside the confirmation, or a cancel button: closeConfirm alone
DismissDialog ==
  /\ ~Busy
  /\ dialog.kind # "none"
  /\ dialog' = NoDialog
  /\ flows' = Orphaned(flows)
  /\ UNCHANGED <<state, cardSeq, obsOverwriteAll, masterLoad, task, events>>
  /\ Step("DismissDialog")

AddSwimlane(sid) ==
  /\ Interactive
  /\ events' = events + 1
  /\ addSwimlane(state, sid) # state
  /\ state' = addSwimlane(state, sid)
  /\ task' = "autoAssign"
  /\ UNCHANGED <<cardSeq, obsOverwriteAll, flows, masterLoad, dialog>>
  /\ Step("AddSwimlane")

AddAllSwimlanes ==
  /\ Interactive
  /\ events' = events + 1
  /\ addAllSwimlanes(state) # state
  /\ state' = addAllSwimlanes(state)
  /\ task' = "autoAssign"
  /\ UNCHANGED <<cardSeq, obsOverwriteAll, flows, masterLoad, dialog>>
  /\ Step("AddAllSwimlanes")

CardIds == 1..MaxCardSeq
StationIdSet == {"A", "B"}

Next ==
  \/ \E f \in Flows, n \in 1..MaxBatch : DropObservationFiles(f, n)
  \/ \E f \in Flows : ObsReadFail(f)
  \/ \E f \in Flows, file \in Files : ObsReadDone(f, file)
  \/ \E f \in Flows, b \in {"overwrite", "overwriteAll", "skip"} : ConfirmOverwrite(f, b)
  \/ \E f \in Flows : Continue(f)
  \/ AutoAssignStep
  \/ AutoAssignClick
  \/ \E c \in CardIds, sid \in StationIdSet \cup {""} : MoveCard(c, sid)
  \/ \E c1, c2 \in CardIds, sid \in StationIdSet \cup {""} : MoveCards(c1, c2, sid)
  \/ \E c \in CardIds : RemoveFile(c)
  \/ LoadMasterFile
  \/ \E mode \in {"reset", "diff"} : ChooseMasterMode(mode)
  \/ \E master \in Masters : MasterReadDone(master)
  \/ \E e \in StationIdSet \cup {""}, form \in FormInputs : SaveStationForm(e, form)
  \/ \E kind \in {"deleteStation", "deleteSwimlane"}, sid \in StationIdSet :
       AskDelete(kind, sid)
  \/ AskDelete("resetSwimlanes", "")
  \/ ConfirmDeleteStation
  \/ ConfirmDeleteSwimlane
  \/ ConfirmResetSwimlanes
  \/ DismissDialog
  \/ \E sid \in StationIdSet : AddSwimlane(sid)
  \/ AddAllSwimlanes

Spec == Init /\ [][Next]_vars

(***************************************************************************)
(* Loading observation files when every read ends and the user answers     *)
(* every overwrite confirmation with one of its buttons: the FileReader of *)
(* readFile calls onload or onerror, the continuation of an await runs,    *)
(* and a confirmation that is shown is answered.                           *)
(***************************************************************************)
\* the read of the current file of flow f ends
ReadEnds(f) == ObsReadFail(f) \/ \E file \in Files : ObsReadDone(f, file)

\* the user presses a button of the overwrite confirmation of flow f
AnswerOverwrite(f) ==
  \E b \in {"overwrite", "overwriteAll", "skip"} : ConfirmOverwrite(f, b)

LiveNext ==
  \/ \E f \in Flows, n \in 1..MaxBatch : DropObservationFiles(f, n)
  \/ \E f \in Flows : ReadEnds(f)
  \/ \E f \in Flows : AnswerOverwrite(f)
  \/ \E f \in Flows : Continue(f)
  \/ AutoAssignStep

\* a step other than a drop: a handler continues, a read ends, the user
\* answers.  A drop starts finitely many of them, so that weak fairness of
\* their disjunction lets none of them wait forever.
Progress ==
  \/ \E f \in Flows : Continue(f)
  \/ \E f \in Flows : ObsReadFail(f)
  \/ \E f \in Flows : ConfirmOverwrite(f, "skip")
  \/ AutoAssignStep
  \/ \E f \in Flows : ReadEnds(f)
  \/ \E f \in Flows : AnswerOverwrite(f)

Fairness == WF_vars(Progress)

LiveSpec == Init /\ [][LiveNext]_vars /\ Fairness

(***************************************************************************)
(* Loading master files next to loading observation files, with a master   *)
(* file whose only station entry is invalid among the files read.          *)
(***************************************************************************)
\* the only station entry of a file whose two rows share their id is invalid
MasterTwice == MasterOf(<<Row(<<"A">>, "A"), Row(<<"x">>, "A")>>)
LoadMasters == Masters \cup {MasterTwice}

MasterLoadNext ==
  \/ LoadMasterFile
  \/ \E mode \in {"reset", "diff"} : ChooseMasterMode(mode)
  \/ \E master \in LoadMasters : MasterReadDone(master)
  \/ \E sid \in StationIdSet : AddSwimlane(sid)
  \/ LiveNext

MasterLoadSpec == Init /\ [][MasterLoadNext]_vars

(***************************************************************************)
(* fileHandler.parseMasterCSV as a function of the master file: the master *)
(* files of at most MaxMasterRows rows, with and without the CATEGORY      *)
(* column, each row naming a station or lacking its name or its id.        *)
(***************************************************************************)
RowNames == {<<"a">>, <<>>}
RowIds == {"A", "B", "constructor", ""}
MasterRows == { Row(n, i) : n \in RowNames, i \in RowIds }
MasterInputs ==
  { [columns |-> cols, rows |-> rows] :
      cols \in {requiredCols, {"NAME", "ID"}},
      rows \in UNION { [1..n -> MasterRows] : n \in 0..MaxMasterRows } }

Pending == [pending |-> TRUE]

InitMaster ==
  /\ InitApp
  /\ call \in { [fn |-> "parseMasterCSV", arg |-> m, result |-> Pending] :
                  m \in MasterInputs }

ParseMaster ==
  /\ call.fn = "parseMasterCSV" /\ call.result = Pending
  /\ call' = [call EXCEPT !.result = parseMasterCSV(call.arg)]
  /\ UNCHANGED <<state, cardSeq, obsOverwriteAll, flows, masterLoad, dialog, task,
                 events, last>>

NextMaster == ParseMaster

MasterSpec == InitMaster /\ [][NextMaster]_vars


(***************************************************************************)
(* The CSV pair: escape and the line join of dataProcessor.generateCSVBlob *)
(* and fileHandler.parseCsvLine, on sequences of characters.               *)
(***************************************************************************)
\* cells of a serialized row, and characters of a cell
MaxCells == 2
MaxCellLen == 2

\* what String.prototype.trim removes, within the alphabet of the model
IsTrimSpace(c) == c \in {" ", "\t", "\n", "\r"}

RECURSIVE trimStart(_)
trimStart(s) ==
  IF s # <<>> /\ IsTrimSpace(Head(s)) THEN trimStart(Tail(s)) ELSE s

RECURSIVE trimEnd(_)
trimEnd(s) ==
  IF s # <<>> /\ IsTrimSpace(s[Len(s)]) THEN trimEnd(SubSeq(s, 1, Len(s) - 1)) ELSE s

trim(s) == trimEnd(trimStart(s))

\* s.replace(/"/g, '""')
RECURSIVE doubleQuotes(_)
doubleQuotes(s) ==
  IF s = <<>> THEN <<>>
  ELSE (IF Head(s) = "\"" THEN <<"\"", "\"">> ELSE <<Head(s)>>) \o doubleQuotes(Tail(s))

escape(s) ==
  IF \E i \in 1..Len(s) : s[i] \in {",", "\"", "\n"}
  THEN <<"\"">> \o doubleQuotes(s) \o <<"\"">>
  ELSE s

\* Array.prototype.join(',')
RECURSIVE joinComma(_)
joinComma(cells) ==
  IF cells = <<>> THEN <<>>
  ELSE IF Len(cells) = 1 THEN cells[1]
  ELSE cells[1] \o <<",">> \o joinComma(Tail(cells))

\* row.map(escape).join(',')
csvLine(row) == joinComma([i \in 1..Len(row) |-> escape(row[i])])

RECURSIVE parseCsvLoop_SplitInQuotes(_, _, _, _, _)
parseCsvLoop_SplitInQuotes(line, i, cur, inQuote, result) ==
  IF i > Len(line) THEN Append(result, trim(cur))
  ELSE IF line[i] = ","
  THEN parseCsvLoop_SplitInQuotes(line, i + 1, <<>>, inQuote, Append(result, trim(cur)))
  ELSE IF inQuote
  THEN IF line[i] = "\"" /\ i + 1 <= Len(line) /\ line[i + 1] = "\""
       THEN parseCsvLoop_SplitInQuotes(line, i + 2, Append(cur, "\""), TRUE, result)
       ELSE IF line[i] = "\""
       THEN parseCsvLoop_SplitInQuotes(line, i + 1, cur, FALSE, result)
       ELSE parseCsvLoop_SplitInQuotes(line, i + 1, Append(cur, line[i]), TRUE, result)
  ELSE IF line[i] = "\""
  THEN parseCsvLoop_SplitInQuotes(line, i + 1, cur, TRUE, result)
  ELSE parseCsvLoop_SplitInQuotes(line, i + 1, Append(cur, line[i]), FALSE, result)

\* the loop of parseCsvLine, i the index of the character (from 1)
RECURSIVE parseCsvLoop(_, _, _, _, _)
parseCsvLoop(line, i, cur, inQuote, result) ==
  IF i > Len(line) THEN Append(result, trim(cur))
  ELSE IF inQuote
  THEN IF line[i] = "\"" /\ i + 1 <= Len(line) /\ line[i + 1] = "\""
       THEN parseCsvLoop(line, i + 2, Append(cur, "\""), TRUE, result)
       ELSE IF line[i] = "\""
       THEN parseCsvLoop(line, i + 1, cur, FALSE, result)
       ELSE parseCsvLoop(line, i + 1, Append(cur, line[i]), TRUE, result)
  ELSE IF line[i] = "\""
  THEN parseCsvLoop(line, i + 1, cur, TRUE, result)
  ELSE IF line[i] = ","
  THEN parseCsvLoop(line, i + 1, <<>>, FALSE, Append(result, trim(cur)))
  ELSE parseCsvLoop(line, i + 1, Append(cur, line[i]), FALSE, result)

parseCsvLine(line) == parseCsvLoop(line, 1, <<>>, FALSE, <<>>)

\* the rows of 1..MaxCells cells of at most MaxCellLen characters
CsvAlphabet == {"a", ",", "\"", " ", "\n"}
CsvCells == UNION { [1..n -> CsvAlphabet] : n \in 0..MaxCellLen }
CsvRows == UNION { [1..n -> CsvCells] : n \in 1..MaxCells }

(***************************************************************************)
(* dataProcessor.js: the two exports.  An assignment is [stationId, card], *)
(* card.parsed is [error, headerRow, dataRows]; a column name and a cell   *)
(* are sequences of characters.  A number is carried in tenths, as <<n>>,  *)
(* and null or NaN is <<>>.                                                *)
(***************************************************************************)
\* parseFloat of a trimmed cell: the leading run of digits, with one
\* fractional digit if there is one; NaN without a leading digit
parseFloat(s) ==
  IF DigitRun(s, 1, Len(s)) = 0 THEN <<>>
  ELSE IF /\ CharAt(s, DigitRun(s, 1, Len(s)) + 1, {"."})
          /\ CharAt(s, DigitRun(s, 1, Len(s)) + 2, DigitChars)
  THEN << 10 * ParseInt(SubSeq(s, 1, DigitRun(s, 1, Len(s))))
          + DigitValue(s[DigitRun(s, 1, Len(s)) + 2]) >>
  ELSE << 10 * ParseInt(SubSeq(s, 1, DigitRun(s, 1, Len(s)))) >>

calculateDepthBin_Truncate(depth) ==
  IF depth < 0 THEN 0 - (((0 - depth) \div 5) * 5) ELSE (depth \div 5) * 5

\* Math.floor(depth / 0.5) * 0.5, in tenths
calculateDepthBin(depth) == (depth \div 5) * 5

\* headers.findIndex(h => h.toLowerCase().includes(word)); 0 for -1
firstIndexWith(headers, word) ==
  IF \E i \in 1..Len(headers) : Includes(toLowerCase(headers[i]), word)
  THEN CHOOSE i \in 1..Len(headers) :
         /\ Includes(toLowerCase(headers[i]), word)
         /\ \A j \in 1..(i - 1) : ~Includes(toLowerCase(headers[j]), word)
  ELSE 0

\* the two characters of the native word for depth, each one character
DepthWord == <<"shin", "do">>

\* h.includes(native depth word) || h.toLowerCase().includes('depth')
isDepthHeader(h) ==
  Includes(h, DepthWord) \/ Includes(toLowerCase(h), <<"d", "e", "p", "t", "h">>)

\* the column of the depth in the two exports; 0 for -1
depthIndex(headers) ==
  IF \E i \in 1..Len(headers) : isDepthHeader(headers[i])
  THEN CHOOSE i \in 1..Len(headers) :
         isDepthHeader(headers[i]) /\ \A j \in 1..(i - 1) : ~isDepthHeader(headers[j])
  ELSE 0

\* dataRow[i] !== undefined ? dataRow[i] : ''
cellAt(dataRow, i) == IF i \in 1..Len(dataRow) THEN dataRow[i] ELSE <<>>

\* rowObj[col], undefined read as ''
rowValue(headers, rowObj, col) ==
  IF IndexOf(headers, col) = 0 THEN <<>> ELSE rowObj.cells[IndexOf(headers, col)]

rawDepthOf(dataRow, depthIdx) ==
  IF depthIdx > 0 THEN parseFloat(cellAt(dataRow, depthIdx)) ELSE <<>>

\* the row object of a data row, before applyB1mFlag; src is its index in
\* parsed.dataRows
rowObject(headers, dataRows, j, depthIdx) ==
  [cells |-> [i \in 1..Len(headers) |-> cellAt(dataRows[j], i)],
   src |-> j,
   rawDepth |-> rawDepthOf(dataRows[j], depthIdx),
   depthBin |-> IF rawDepthOf(dataRows[j], depthIdx) = <<>> THEN <<>>
                ELSE <<calculateDepthBin(rawDepthOf(dataRows[j], depthIdx)[1])>>,
   b1mFlag |-> 0]

fileRowsOf_SkipNoDepth(headers, dataRows, depthIdx) ==
  SelectSeq([j \in 1..Len(dataRows) |-> rowObject(headers, dataRows, j, depthIdx)],
            LAMBDA r : r.depthBin # <<>>)

\* the loop over parsed.dataRows
fileRowsOf(headers, dataRows, depthIdx) ==
  [j \in 1..Len(dataRows) |-> rowObject(headers, dataRows, j, depthIdx)]

\* the maximum of a non-empty set of numbers
Max(S) == CHOOSE x \in S : \A y \in S : y <= x

\* null - x and Math.abs(null - x) read null as 0
binNumber(depthBin) == IF depthBin = <<>> THEN 0 ELSE depthBin[1]

\* flagBin of applyB1mFlag: <<>> for null
flagBinOf(rows) ==
  IF /\ \E i \in 1..Len(rows) : rows[i].rawDepth # <<>>
     /\ Max({ rows[i].rawDepth[1] : i \in { k \in 1..Len(rows) : rows[k].rawDepth # <<>> } }) >= 10
  THEN << Max({ rows[i].depthBin[1] :
                  i \in { k \in 1..Len(rows) : rows[k].depthBin # <<>> } }) - 10 >>
  ELSE <<>>

applyB1mFlag(rows) ==
  [i \in 1..Len(rows) |->
     [rows[i] EXCEPT !.b1mFlag =
        IF flagBinOf(rows) = <<>> THEN 0
        ELSE IF binNumber(rows[i].depthBin) = flagBinOf(rows)[1] THEN 1 ELSE 0]]

\* the set and the order of _buildUnionColumns
RECURSIVE appendNew(_, _)
appendNew(ordered, headers) ==
  IF headers = <<>> THEN ordered
  ELSE appendNew(IF Head(headers) \in SeqToSet(ordered) THEN ordered
                 ELSE Append(ordered, Head(headers)),
                 Tail(headers))

hasError(parsed) == parsed.error # NoError

RECURSIVE unionLoop(_, _)
unionLoop(assignments, ordered) ==
  IF assignments = <<>> THEN ordered
  ELSE unionLoop(Tail(assignments),
                 IF hasError(Head(assignments).card.parsed) THEN ordered
                 ELSE appendNew(ordered, Head(assignments).card.parsed.headerRow))

_buildUnionColumns(assignments) == unionLoop(assignments, <<>>)

\* an output row of the raw merge; file is the index of the assignment
mergedRow(a, file, headers, rowObj, unionCols) ==
  [stationId |-> a.stationId, fileName |-> a.card.fileName, file |-> file,
   src |-> rowObj.src, depthBin |-> rowObj.depthBin, b1mFlag |-> rowObj.b1mFlag,
   data |-> [c \in 1..Len(unionCols) |-> rowValue(headers, rowObj, unionCols[c])]]

mergedRowsOf(a, file, fileRows, unionCols) ==
  [j \in 1..Len(fileRows) |->
     mergedRow(a, file, a.card.parsed.headerRow, fileRows[j], unionCols)]

\* the loop of mergeAllData over the assignments from index file on
RECURSIVE mergeLoop(_, _, _, _)
mergeLoop(assignments, file, unionCols, allRows) ==
  IF file > Len(assignments) THEN allRows
  ELSE IF hasError(assignments[file].card.parsed)
  THEN mergeLoop(assignments, file + 1, unionCols, allRows)
  ELSE mergeLoop(assignments, file + 1, unionCols,
         allRows \o mergedRowsOf(assignments[file], file,
                      applyB1mFlag(fileRowsOf(assignments[file].card.parsed.headerRow,
                                              assignments[file].card.parsed.dataRows,
                                              depthIndex(assignments[file].card.parsed.headerRow))),
                      unionCols))

mergeAllData(assignments) ==
  [headers |-> _buildUnionColumns(assignments),
   rows |-> mergeLoop(assignments, 1, _buildUnionColumns(assignments), <<>>)]

\* const groups = new Map(): the rows of each bin key in the order in which
\* the keys are first met (the Map helpers hold the rows in `ids`)
RECURSIVE groupLoop(_, _)
groupLoop(fileRows, groups) ==
  IF fileRows = <<>> THEN groups
  ELSE groupLoop(Tail(fileRows),
                 MapSet(groups, Head(fileRows).depthBin,
                        Append(MapGetOrEmpty(groups, Head(fileRows).depthBin),
                               Head(fileRows))))

\* the values _isNumericColumn samples: the non-empty ones of rows.slice(0, 20)
sampleValues(headers, rows, col) ==
  SelectSeq([i \in 1..(IF Len(rows) < 20 THEN Len(rows) ELSE 20) |->
               rowValue(headers, rows[i], col)],
            LAMBDA v : v # <<>>)

\* totalCount > 0 && numCount / totalCount >= 0.8
isNumericSample(vals) ==
  /\ Len(vals) > 0
  /\ 10 * Len(SelectSeq(vals, LAMBDA v : parseFloat(v) # <<>>)) >= 8 * Len(vals)

\* cache is numericCache: a function from the columns decided so far
_isNumericColumn(col, headers, rows, cache) ==
  IF col \in DOMAIN cache THEN cache[col]
  ELSE isNumericSample(sampleValues(headers, rows, col))

\* numericCache after the call
cacheAfter(col, headers, rows, cache) ==
  IF col \in DOMAIN cache THEN cache
  ELSE [c \in (DOMAIN cache) \cup {col} |->
          IF c = col THEN isNumericSample(sampleValues(headers, rows, col))
          ELSE cache[c]]

\* an output cell: a text, or the mean sum / n of numbers in tenths
cellText(v) == [kind |-> "text", text |-> v, sum |-> 0, n |-> 0]
RECURSIVE SumSeq(_)
SumSeq(vals) == IF vals = <<>> THEN 0 ELSE Head(vals)[1] + SumSeq(Tail(vals))
cellMean(vals) == [kind |-> "mean", text |-> <<>>, sum |-> SumSeq(vals), n |-> Len(vals)]

\* groupRows.map(r => parseFloat(r[col])).filter(v => !isNaN(v))
parseableValues(headers, groupRows, col) ==
  SelectSeq([i \in 1..Len(groupRows) |-> parseFloat(rowValue(headers, groupRows[i], col))],
            LAMBDA v : v # <<>>)

columnValue(headers, groupRows, col, isNum) ==
  IF isNum
  THEN IF parseableValues(headers, groupRows, col) = <<>> THEN cellText(<<>>)
       ELSE cellMean(parseableValues(headers, groupRows, col))
  ELSE cellText(rowValue(headers, groupRows[1], col))

\* dtIdx, gpsLatIdx, gpsLonIdx
firstValueIndexes(headers) ==
  [dt |-> firstIndexWith(headers, <<"d", "a", "t", "e">>),
   lat |-> firstIndexWith(headers, <<"l", "a", "t">>),
   lon |-> firstIndexWith(headers, <<"l", "o", "n">>)]

\* isDateLike || isGpsLike: indexOf and findIndex both give -1 (here 0) for none
firstValueColumn(headers, col, idx) ==
  IndexOf(headers, col) \in {idx.dt, idx.lat, idx.lon}

\* unionCols.map(col => ...) for one group, threading numericCache
RECURSIVE columnsLoop(_, _, _, _, _, _, _)
columnsLoop(headers, idx, groupRows, unionCols, c, cache, data) ==
  IF c > Len(unionCols) THEN [data |-> data, cache |-> cache]
  ELSE IF firstValueColumn(headers, unionCols[c], idx)
  THEN columnsLoop(headers, idx, groupRows, unionCols, c + 1, cache,
         Append(data, cellText(rowValue(headers, groupRows[1], unionCols[c]))))
  ELSE columnsLoop(headers, idx, groupRows, unionCols, c + 1,
         cacheAfter(unionCols[c], headers, groupRows, cache),
         Append(data, columnValue(headers, groupRows, unionCols[c],
                        _isNumericColumn(unionCols[c], headers, groupRows, cache))))

\* an output row of the binned average
binRow(a, file, group, data) ==
  [stationId |-> a.stationId, fileName |-> a.card.fileName, file |-> file,
   depthBin |-> group.key,
   b1mFlag |-> IF \E i \in 1..Len(group.ids) : group.ids[i].b1mFlag = 1 THEN 1 ELSE 0,
   data |-> data, count |-> Len(group.ids)]

\* for (const [binKey, groupRows] of groups), from group g on
RECURSIVE groupsLoop(_, _, _, _, _, _, _)
RECURSIVE groupStep(_, _, _, _, _, _, _)
groupsLoop(a, file, groups, g, unionCols, cache, allRows) ==
  IF g > Len(groups) THEN [rows |-> allRows, cache |-> cache]
  ELSE groupStep(a, file, groups, g, unionCols, allRows,
         columnsLoop(a.card.parsed.headerRow,
                     firstValueIndexes(a.card.parsed.headerRow),
                     groups[g].ids, unionCols, 1, cache, <<>>))
groupStep(a, file, groups, g, unionCols, allRows, r) ==
  groupsLoop(a, file, groups, g + 1, unionCols, r.cache,
             Append(allRows, binRow(a, file, groups[g], r.data)))

\* the groups of a file
groupsOf(parsed) ==
  groupLoop(applyB1mFlag(fileRowsOf(parsed.headerRow, parsed.dataRows,
                                    depthIndex(parsed.headerRow))),
            <<>>)

\* the loop of calculateDepthBinAverages over the assignments
RECURSIVE averagesLoop(_, _, _, _, _)
RECURSIVE fileStep(_, _, _, _)
averagesLoop(assignments, file, unionCols, cache, allRows) ==
  IF file > Len(assignments) THEN allRows
  ELSE IF hasError(assignments[file].card.parsed)
  THEN averagesLoop(assignments, file + 1, unionCols, cache, allRows)
  ELSE fileStep(assignments, file, unionCols,
         groupsLoop(assignments[file], file, groupsOf(assignments[file].card.parsed),
                    1, unionCols, cache, allRows))
fileStep(assignments, file, unionCols, r) ==
  averagesLoop(assignments, file + 1, unionCols, r.cache, r.rows)

calculateDepthBinAverages(assignments) ==
  [headers |-> _buildUnionColumns(assignments),
   rows |-> averagesLoop(assignments, 1, _buildUnionColumns(assignments), <<>>, <<>>)]

(***************************************************************************)
(* The exports and the CSV pair as functions of their arguments: the lists *)
(* of at most MaxFiles assignments whose card is an error card or holds    *)
(* 1..MaxRows data rows under the header Depth, T; and the rows of CsvRows.*)
(***************************************************************************)
\* assignments handed to an export, and data rows of a file
MaxFiles == 2
MaxRows == 2
\* the depths handed to calculateDepthBin alone: -MaxDepth..MaxDepth tenths
MaxDepth == 30

ExportHeader == << <<"D", "e", "p", "t", "h">>, <<"T">> >>
DepthCells == { <<"0", ".", "2">>, <<"1", ".", "2">>, <<>> }
ValueCells == { <<"1">>, <<"x">>, <<>> }
ExportRows == { <<d, v>> : d \in DepthCells, v \in ValueCells }

\* what parseObservationCSV returns for the export: with rows, or the early
\* return of a header row that was not found
ExportParsed ==
  { [error |-> NoError, headerRow |-> ExportHeader, dataRows |-> rows] :
      rows \in UNION { [1..n -> ExportRows] : n \in 1..MaxRows } }
  \cup { [error |-> NoHeader, headerRow |-> <<>>, dataRows |-> <<>>] }

ExportAssignments ==
  UNION { [1..n -> { [stationId |-> "A", card |-> [fileName |-> NameB, parsed |-> p]] :
                       p \in ExportParsed }] : n \in 0..MaxFiles }

InitExport ==
  /\ InitApp
  /\ call \in { [fn |-> fn, arg |-> a, result |-> Pending] :
                  fn \in {"mergeAllData", "calculateDepthBinAverages"},
                  a \in ExportAssignments }
              \cup { [fn |-> "csvRoundTrip", arg |-> row, result |-> Pending] :
                       row \in CsvRows }
              \cup { [fn |-> "calculateDepthBin", arg |-> d, result |-> Pending] :
                       d \in (0 - MaxDepth)..MaxDepth }

UnchangedApp ==
  UNCHANGED <<state, cardSeq, obsOverwriteAll, flows, masterLoad, dialog, task,
              events, last>>

MergeAll ==
  /\ call.fn = "mergeAllData" /\ call.result = Pending
  /\ call' = [call EXCEPT !.result = mergeAllData(call.arg)]
  /\ UnchangedApp

BinAverages ==
  /\ call.fn = "calculateDepthBinAverages" /\ call.result = Pending
  /\ call' = [call EXCEPT !.result = calculateDepthBinAverages(call.arg)]
  /\ UnchangedApp

\* a row is serialized as generateCSVBlob does and its line is tokenized
CsvRoundTrip ==
  /\ call.fn = "csvRoundTrip" /\ call.result = Pending
  /\ call' = [call EXCEPT !.result = [line |-> csvLine(call.arg),
                                      cells |-> parseCsvLine(csvLine(call.arg))]]
  /\ UnchangedApp

DepthBin ==
  /\ call.fn = "calculateDepthBin" /\ call.result = Pending
  /\ call' = [call EXCEPT !.result = [bin |-> calculateDepthBin(call.arg)]]
  /\ UnchangedApp

NextExport == MergeAll \/ BinAverages \/ CsvRoundTrip \/ DepthBin

ExportSpec == InitExport /\ [][NextExport]_vars

(***************************************************************************)
(* fileHandler.js as functions of the text of a file: the coordinate       *)
(* converter, the header discovery and the tokenizer.  Text is a sequence  *)
(* of characters.  A packed coordinate DDMM.MMMM is carried in units of    *)
(* 0.0001 and a coordinate in degrees in units of 0.0000001.               *)
(***************************************************************************)
\* s.split(',')
RECURSIVE splitLoop(_, _, _, _)
splitLoop(s, i, cur, result) ==
  IF i > Len(s) THEN Append(result, cur)
  ELSE IF s[i] = ","
  THEN splitLoop(s, i + 1, <<>>, Append(result, cur))
  ELSE splitLoop(s, i + 1, Append(cur, s[i]), result)

split(s) == splitLoop(s, 1, <<>>, <<>>)

RECURSIVE Pow10(_)
Pow10(n) == IF n = 0 THEN 1 ELSE 10 * Pow10(n - 1)

\* the number of fractional digits of s after a run of n digits, at most 4
fractionLen(s, n) ==
  IF CharAt(s, n + 1, {"."}) THEN DigitRun(s, n + 2, 4) ELSE 0

\* parseFloat of a part whose leading run of digits has length n
packedAt(s, n) ==
  IF n = 0 /\ fractionLen(s, n) = 0 THEN <<>>
  ELSE << 10000 * ParseInt(SubSeq(s, 1, n))
          + ParseInt(SubSeq(s, n + 2, n + 1 + fractionLen(s, n)))
            * Pow10(4 - fractionLen(s, n)) >>

\* parseFloat of a trimmed part, in units of 0.0001; NaN is <<>>
parsePacked(s) == packedAt(s, DigitRun(s, 1, Len(s)))

\* Math.round((Math.floor(v / 100) + (v % 100) / 60) * 1e7): no value of
\* minutes / 60 * 1e7 lies halfway between two integers
degreesOf(v) ==
  (v \div 1000000) * 10000000 + ((v % 1000000) * 100 + 3) \div 6

convertParts(parts) ==
  IF parsePacked(trim(parts[1])) = <<>> \/ parsePacked(trim(parts[3])) = <<>>
  THEN [null |-> TRUE]
  ELSE [lat |-> IF trim(parts[2]) = <<"S">>
                THEN 0 - degreesOf(parsePacked(trim(parts[1]))[1])
                ELSE degreesOf(parsePacked(trim(parts[1]))[1]),
        lon |-> IF trim(parts[4]) = <<"W">>
                THEN 0 - degreesOf(parsePacked(trim(parts[3]))[1])
                ELSE degreesOf(parsePacked(trim(parts[3]))[1])]

convertGPSCoordinate(posStr) ==
  IF posStr = <<>> THEN [null |-> TRUE]
  ELSE IF Len(split(trim(posStr))) < 4 THEN [null |-> TRUE]
  ELSE convertParts(split(trim(posStr)))

\* the packed latitudes and longitudes tried, and parts that are no number
LatParts == {<<"0", "0", "0", "0", ".", "0", "0", "0", "0">>, <<"3", "0", "1", "5", ".", "5", "0", "0", "0">>, <<"8", "9", "5", "9", ".", "9", "9", "9", "9">>, <<"9", "0", "0", "0", ".", "0", "0", "0", "0">>, <<"9", "0", "3", "0", ".", "0", "0", "0", "0">>, <<" ", "3", "0", "1", "5", ".", "5">>}
LonParts == {<<"0", "0", "0", "0", "0", ".", "0", "0", "0", "0">>, <<"1", "3", "9", "4", "5", ".", "1", "2", "3", "4">>, <<"1", "7", "9", "5", "9", ".", "9", "9", "9", "9">>, <<"1", "8", "0", "0", "0", ".", "0", "0", "0", "0">>, <<"1", "8", "0", "5", "9", ".", "9", "9", "9", "9">>}
BadParts == {<<"x">>, <<>>}
PositionParts ==
  { <<a, d, o, e>> : a \in LatParts \cup BadParts, d \in {<<"N">>, <<"S">>},
                     o \in LonParts \cup BadParts, e \in {<<"E">>, <<"W">>} }
PositionStrings ==
  { joinComma(SubSeq(p, 1, n)) : p \in PositionParts, n \in 0..4 }

\* the marker of priority 1, the four characters of the native word for the
\* observation date and time (each one character), and the limits of the scans
ItemMarker == <<"[", "I", "t", "e", "m", "]">>
ObsDateTimeWord == <<"kan", "soku", "nichi", "ji">>
HeaderScanLines == 150
FallbackHeaderIdx == 68

Min(a, b) == IF a < b THEN a ELSE b

\* priority 1: the index (from 0) of the line after the first line whose trim
\* is [Item]; -1 without one
itemHeaderIdx(lines) ==
  IF \E i \in 1..Len(lines) : trim(lines[i]) = ItemMarker
  THEN CHOOSE i \in 1..Len(lines) :
         /\ trim(lines[i]) = ItemMarker
         /\ \A j \in 1..(i - 1) : trim(lines[j]) # ItemMarker
  ELSE 0 - 1

\* lines[i].includes(native word) || lines[i].includes('Date')
isKeywordLine(line) ==
  Includes(line, ObsDateTimeWord) \/ Includes(line, <<"D", "a", "t", "e">>)

\* priority 2: the index (from 0) of the first keyword line of the first 150
keywordHeaderIdx(lines) ==
  IF \E i \in 1..Min(Len(lines), HeaderScanLines) : isKeywordLine(lines[i])
  THEN (CHOOSE i \in 1..Min(Len(lines), HeaderScanLines) :
          /\ isKeywordLine(lines[i])
          /\ \A j \in 1..(i - 1) : ~isKeywordLine(lines[j])) - 1
  ELSE 0 - 1

headerIdxOf(lines) ==
  IF itemHeaderIdx(lines) # 0 - 1 THEN itemHeaderIdx(lines)
  ELSE IF keywordHeaderIdx(lines) # 0 - 1 THEN keywordHeaderIdx(lines)
  ELSE FallbackHeaderIdx

warningFallbackOf(lines) ==
  itemHeaderIdx(lines) = 0 - 1 /\ keywordHeaderIdx(lines) = 0 - 1

\* the tokenized non-blank lines after the header; lines[headerIdx] of the
\* source is lines[headerIdx + 1] here
dataRowsOf(lines, headerIdx) ==
  LET kept == SelectSeq([i \in 1..(Len(lines) - headerIdx - 1) |-> lines[headerIdx + 1 + i]],
                        LAMBDA line : trim(line) # <<>>)
  IN  [i \in 1..Len(kept) |-> parseCsvLine(kept[i])]

\* h.includes(native depth word) || h.includes('depth')
isObsDepthHeader(h) ==
  Includes(h, DepthWord) \/ Includes(h, <<"d", "e", "p", "t", "h">>)

\* the column of the depth in parseObservationCSV; 0 for -1
obsDepthIdx(headers) ==
  IF \E i \in 1..Len(headers) : isObsDepthHeader(headers[i])
  THEN CHOOSE i \in 1..Len(headers) :
         /\ isObsDepthHeader(headers[i])
         /\ \A j \in 1..(i - 1) : ~isObsDepthHeader(headers[j])
  ELSE 0

\* the parseable depths, in tenths, of column depthIdx
depthValues(dataRows, depthIdx) ==
  { parseFloat(cellAt(dataRows[j], depthIdx))[1] :
      j \in { r \in 1..Len(dataRows) : parseFloat(cellAt(dataRows[r], depthIdx)) # <<>> } }

maxDepthOf(dataRows, depthIdx) ==
  IF depthIdx = 0 \/ depthValues(dataRows, depthIdx) = {} THEN <<>>
  ELSE << Max(depthValues(dataRows, depthIdx)) >>

\* parseObservationCSV from the detected header on
parseFrom(lines, headerIdx, fallback) ==
  IF headerIdx >= Len(lines)
  THEN [headerRowIndex |-> 0 - 1, headerRow |-> <<>>, dataRows |-> <<>>,
        maxDepth |-> <<>>, warningFallback |-> fallback, error |-> NoHeader]
  ELSE IF dataRowsOf(lines, headerIdx) = <<>>
  THEN [headerRowIndex |-> headerIdx, headerRow |-> parseCsvLine(lines[headerIdx + 1]),
        dataRows |-> <<>>, maxDepth |-> <<>>, warningFallback |-> fallback,
        error |-> ZeroRows]
  ELSE [headerRowIndex |-> headerIdx, headerRow |-> parseCsvLine(lines[headerIdx + 1]),
        dataRows |-> dataRowsOf(lines, headerIdx),
        maxDepth |-> maxDepthOf(dataRowsOf(lines, headerIdx),
                                obsDepthIdx(parseCsvLine(lines[headerIdx + 1]))),
        warningFallback |-> fallback, error |-> NoError]

\* parseObservationCSV on the lines splitLines gives
parseObservationCSV(lines) ==
  parseFrom(lines, headerIdxOf(lines), warningFallbackOf(lines))

\* the files tried: filler data lines, and up to two other lines at places
\* around the start of the file, line index 68 and the end of the scan
FillerLine == <<"a", ",", "0", ".", "2">>
MarkLines == {<<"[", "I", "t", "e", "m", "]">>,
              <<" ", "[", "I", "t", "e", "m", "]", " ">>,
              <<"D", "a", "t", "e", ",", "d", "e", "p", "t", "h">>,
              <<"d", "a", "t", "e", ",", "D", "e", "p", "t", "h">>,
              <<"D", "A", "T", "E", ",", "1", ".", "2">>,
              <<>>,
              <<"kan", "soku", "nichi", "ji", ",", "shin", "do">>}
MarkPlaces == {1, 2, 3, 69, 70, 150, 151}
FileLengths == {0, 1, 2, 3, 69, 70, 151, 152}
fileLines(n, p1, m1, p2, m2) ==
  [i \in 1..n |-> IF i = p1 THEN m1 ELSE IF i = p2 THEN m2 ELSE FillerLine]
ObsFiles ==
  { fileLines(n, p1, m1, p2, m2) :
      n \in FileLengths, p1 \in MarkPlaces, m1 \in MarkLines,
      p2 \in MarkPlaces, m2 \in MarkLines }

\* the lines of at most MaxLineLen characters the tokenizer is tried on
MaxLineLen == 5
LineAlphabet == {"a", ",", "\"", " "}
CsvLines == UNION { [1..n -> LineAlphabet] : n \in 0..MaxLineLen }

InitParse ==
  /\ InitApp
  /\ call \in { [fn |-> "convertGPSCoordinate", arg |-> s, result |-> Pending] :
                  s \in PositionStrings }
              \cup { [fn |-> "parseObservationCSV", arg |-> lines, result |-> Pending] :
                       lines \in ObsFiles }
              \cup { [fn |-> "parseCsvLine", arg |-> line, result |-> Pending] :
                       line \in CsvLines }

ConvertGPS ==
  /\ call.fn = "convertGPSCoordinate" /\ call.result = Pending
  /\ call' = [call EXCEPT !.result = convertGPSCoordinate(call.arg)]
  /\ UnchangedApp

ParseObservation ==
  /\ call.fn = "parseObservationCSV" /\ call.result = Pending
  /\ call' = [call EXCEPT !.result = parseObservationCSV(call.arg)]
  /\ UnchangedApp

Tokenize ==
  /\ call.fn = "parseCsvLine" /\ call.result = Pending
  /\ call' = [call EXCEPT !.result = [fields |-> parseCsvLine(call.arg)]]
  /\ UnchangedApp

NextParse == ConvertGPS \/ ParseObservation \/ Tokenize

ParseSpec == InitParse /\ [][NextParse]_vars

(***************************************************************************)
(* app.js: outputCSV and _buildOutputAssignments.  The coroutine of        *)
(* outputCSV is carried by `call`: its format, the warnIds it collected    *)
(* before its first await, its two flags, the confirmations it has shown   *)
(* and, once it has generated the CSV, the cards whose rows are in it.     *)
(* Loading goes on while a confirmation of outputCSV is shown.             *)
(***************************************************************************)
OutputIdle ==
  [fn |-> "outputCSV", arg |-> "",
   result |-> [pc |-> "idle", warnIds |-> {}, excludeUnclassified |-> FALSE,
               excludeWarning |-> FALSE, askedUnclassified |-> FALSE,
               askedWarning |-> FALSE, cards |-> {}]]

\* the cards of the buckets whose header was found by the fixed fallback
warnIdsOf(S) ==
  { c \in DOMAIN S.cards :
      /\ \E i \in 1..Len(S.assignments) : c \in SeqToSet(S.assignments[i].ids)
      /\ S.cards[c].parsed.warningFallback }

unresolvedWarnIds(S, warnIds, excludeUnclassified) ==
  { c \in warnIds \cap DOMAIN S.cards :
      ~(excludeUnclassified /\ S.cards[c].stationId = "") }

\* the assignments of one bucket
bucketAssignments(S, entry, excludeWarning) ==
  LET kept == SelectSeq(entry.ids, LAMBDA c :
                /\ c \in DOMAIN S.cards
                /\ ~(excludeWarning /\ S.cards[c].parsed.warningFallback)
                /\ S.cards[c].parsed.error # ZeroRows)
  IN  [i \in 1..Len(kept) |->
         [stationId |-> IF entry.key \in stationIds(S.stations)
                        THEN entry.key ELSE "",
          card |-> S.cards[kept[i]]]]

RECURSIVE buildLoop(_, _, _, _)
buildLoop(S, i, excludeUnclassified, excludeWarning) ==
  IF i > Len(S.assignments) THEN <<>>
  ELSE IF excludeUnclassified /\ S.assignments[i].key = ""
  THEN buildLoop(S, i + 1, excludeUnclassified, excludeWarning)
  ELSE bucketAssignments(S, S.assignments[i], excludeWarning)
       \o buildLoop(S, i + 1, excludeUnclassified, excludeWarning)

_buildOutputAssignments(S, excludeUnclassified, excludeWarning) ==
  buildLoop(S, 1, excludeUnclassified, excludeWarning)

\* the cards with a row in the result of mergeAllData and of
\* calculateDepthBinAverages: both skip a card with parsed.error, and an
\* error-free card has a data row
cardsWithRows(assignments) ==
  { assignments[i].card.id :
      i \in { j \in 1..Len(assignments) : assignments[j].card.parsed.error = NoError } }

\* outputCSV from the construction of the assignments on
generateOutput(S, co) ==
  IF _buildOutputAssignments(S, co.excludeUnclassified, co.excludeWarning) = <<>>
  THEN [co EXCEPT !.pc = "none", !.cards = {}]
  ELSE [co EXCEPT !.pc = "done",
                  !.cards = cardsWithRows(_buildOutputAssignments(
                              S, co.excludeUnclassified, co.excludeWarning))]

\* outputCSV from the check of the warned cards on
afterUnclassified(S, co) ==
  IF unresolvedWarnIds(S, co.warnIds, co.excludeUnclassified) # {}
  THEN [co EXCEPT !.pc = "warning", !.askedWarning = TRUE]
  ELSE generateOutput(S, co)

\* outputCSV up to its first await or its end
outputCSV(S) ==
  IF DOMAIN S.cards = {} THEN [OutputIdle.result EXCEPT !.pc = "none"]
  ELSE IF MapGetOrEmpty(S.assignments, "") # <<>>
  THEN [OutputIdle.result EXCEPT !.pc = "unclassified", !.warnIds = warnIdsOf(S),
                                 !.askedUnclassified = TRUE]
  ELSE afterUnclassified(S, [OutputIdle.result EXCEPT !.warnIds = warnIdsOf(S)])

\* the confirmation outputCSV awaits at pc, if any
outputDialog(co) ==
  IF co.pc \in {"unclassified", "warning"}
  THEN [kind |-> co.pc, sid |-> "", flow |-> 0]
  ELSE NoDialog

OutputStep(co) ==
  /\ call' = [call EXCEPT !.result = co]
  /\ dialog' = outputDialog(co)
  /\ last' = [step |-> "outputCSV", cards |-> co.cards]
  /\ UNCHANGED <<state, cardSeq, obsOverwriteAll, flows, masterLoad, task>>

\* a click on one of the two output buttons
OutputCSV(format) ==
  /\ Interactive
  /\ events' = events + 1
  /\ call' = [fn |-> "outputCSV", arg |-> format, result |-> outputCSV(state)]
  /\ dialog' = outputDialog(outputCSV(state))
  /\ last' = [step |-> "outputCSV", cards |-> outputCSV(state).cards]
  /\ UNCHANGED <<state, cardSeq, obsOverwriteAll, flows, masterLoad, task>>

\* a button of the confirmation of the unclassified files
AnswerUnclassified(exclude) ==
  /\ ~Busy
  /\ dialog.kind = "unclassified"
  /\ OutputStep(afterUnclassified(state,
                  [call.result EXCEPT !.excludeUnclassified = exclude]))
  /\ UNCHANGED events

\* a button of the confirmation of the fallback headers
AnswerWarning(exclude) ==
  /\ ~Busy
  /\ dialog.kind = "warning"
  /\ OutputStep(generateOutput(state, [call.result EXCEPT !.excludeWarning = exclude]))
  /\ UNCHANGED events

\* a file whose header was taken by the fixed fallback and that has rows, none
\* of them with a date
FileFallback ==
  [fileName |-> NameAB,
   parsed |-> [ParsedOk(<<>>, 10, 4) EXCEPT !.warningFallback = TRUE]]
OutputFiles == {FileB1, FileFallback, FileErr}

InitOutput == InitApp /\ call = OutputIdle

NextOutput ==
  \/ \E format \in {"A", "B"} : OutputCSV(format)
  \/ \E exclude \in BOOLEAN : AnswerUnclassified(exclude)
  \/ \E exclude \in BOOLEAN : AnswerWarning(exclude)
  \/ \E f \in Flows, n \in 1..MaxBatch : DropObservationFiles(f, n)
  \/ \E f \in Flows : ObsReadFail(f)
  \/ \E f \in Flows, file \in OutputFiles : ObsReadDone(f, file)
  \/ \E f \in Flows : AnswerOverwrite(f)
  \/ \E f \in Flows : Continue(f)
  \/ AutoAssignStep
  \/ \E form \in FormInputs : SaveStationForm("", form)
  \/ \E c \in CardIds, sid \in StationIdSet \cup {""} : MoveCard(c, sid)

OutputSpec == InitOutput /\ [][NextOutput]_vars

(***************************************************************************)
(* Vocabulary of the properties.                                           *)
(***************************************************************************)
\* card c is listed in the bucket of key k
InBucket(S, k, c) == c \in SeqToSet(MapGetOrEmpty(S.assignments, k))

\* the number of times card c is listed in the buckets of S
Occurrences(S, c) ==
  Cardinality({ p \in UNION { { <<i, j>> : j \in 1..Len(S.assignments[i].ids) } :
                               i \in 1..Len(S.assignments) } :
                  S.assignments[p[1]].ids[p[2]] = c })

\* the keys of the station buckets
StationKeys(S) == SeqToSet(MapKeys(S.assignments)) \ {"", NullKey}

\* the station buckets that list c after the step and did not before it
Entered(c) ==
  { k \in StationKeys(state') : InBucket(state', k, c) /\ ~InBucket(state, k, c) }

\* the stations given to the matcher that match the file name of card c
MatchingStations(S, c) ==
  { i \in 1..Len(activeStations(S)) :
      stationMatches(normalizeFileName(S.cards[c].fileName), activeStations(S)[i]) }

\* a step that runs _autoAssignUnclassified
AutoAssignActs == task = "autoAssign" /\ task' = "idle"

\* no handler is in the middle of its run
Settled == ~Busy

(***************************************************************************)
(* C1: after any sequence of operations every card of state.cards has its  *)
(* id in exactly one bucket of state.assignments.                          *)
(***************************************************************************)
C1_EveryCardInExactlyOneBucket ==
  Settled => \A c \in DOMAIN state.cards : Occurrences(state, c) = 1

(***************************************************************************)
(* C2: auto-assign moves an unclassified card into a station bucket only   *)
(* if its normalized file name matches exactly one of the stations given   *)
(* to the matcher, and into that station's bucket; a card with no match    *)
(* or with two or more stays unclassified.                                 *)
(***************************************************************************)
C2_MovesOnlyOnUniqueMatch ==
  [][AutoAssignActs =>
       \A c \in DOMAIN state.cards :
         InBucket(state, "", c) =>
           LET m == MatchingStations(state, c)
           IN  /\ Entered(c) # {} =>
                    /\ Cardinality(m) = 1
                    /\ Entered(c) = { activeStations(state)[i].id : i \in m }
               /\ Cardinality(m) # 1 =>
                    /\ InBucket(state', "", c)
                    /\ Entered(c) = {}
                    /\ state'.cards[c] = state.cards[c]]_vars

\* auto-assign has run with both stations active: one card matched station B
\* alone and is in its bucket, another matches both and is unclassified
C2_Witness ==
  /\ last.step = "AutoAssignStep"
  /\ \E c \in last.cards :
       /\ Cardinality(MatchingStations(state, c)) = 1
       /\ InBucket(state, "B", c) /\ ~InBucket(state, "", c)
       /\ state.cards[c].stationId = "B"
  /\ \E c \in (DOMAIN state.cards) \ last.cards :
       /\ Cardinality(MatchingStations(state, c)) = 2
       /\ InBucket(state, "", c)
       /\ StationKeys(state) \cap { k \in {"A", "B"} : InBucket(state, k, c) } = {}

(***************************************************************************)
(* C3: a card whose parsed record has an error (the header row was not     *)
(* found) is never moved out of the unclassified bucket by auto-assign.    *)
(***************************************************************************)
C3_ErrorCardStaysUnclassified ==
  [][AutoAssignActs =>
       \A c \in DOMAIN state.cards :
         (state.cards[c].parsed.error # NoError /\ InBucket(state, "", c)) =>
           /\ InBucket(state', "", c)
           /\ Entered(c) = {}
           /\ state'.cards[c].stationId = state.cards[c].stationId]_vars

(***************************************************************************)
(* C4: a file dropped while a card of the same file name and the same      *)
(* first datetime exists (the second of two such files), overwrite-all not *)
(* being in effect, raises one overwrite confirmation for that file and    *)
(* changes nothing until it is answered; a file that has no such card      *)
(* raises none; and when the user declines, state.cards, cardOrder, the    *)
(* assignment index and every card's stationId are as they were.           *)
(***************************************************************************)
\* a card of the file's name and first datetime exists
HasDuplicate(S, file) ==
  \E c \in DOMAIN S.cards :
    /\ S.cards[c].fileName = file.fileName
    /\ S.cards[c].parsed.firstDateTime = file.parsed.firstDateTime

C5_ConfirmedOverwriteReplaces ==
  [][(last'.step = "ConfirmOverwrite" /\ flows[dialog.flow].conflictCard \in DOMAIN state.cards) =>
       LET old == flows[dialog.flow].conflictCard
       IN  /\ Cardinality(DOMAIN state'.cards) = Cardinality(DOMAIN state.cards)
           /\ old \notin DOMAIN state'.cards
           /\ \E n \in (DOMAIN state'.cards) \ (DOMAIN state.cards) :
                InBucket(state', state.cards[old].stationId, n)]_vars

(***************************************************************************)
(* C6: a dropped file that parses to zero data rows is discarded on every  *)
(* path (new file, same-name file, confirmed overwrite, overwrite-all): no *)
(* card is created and state.cards, cardOrder and the assignment index are *)
(* unchanged.                                                              *)
(***************************************************************************)
\* the step processes a file of zero data rows: its read ends, or the
\* confirmation raised for it is answered with an overwrite button
ProcessesZeroRows ==
  \/ \E f \in Flows, file \in Files :
       file.parsed.error = ZeroRows /\ ObsReadDone(f, file)
  \/ /\ last'.step = "ConfirmOverwrite"
     /\ flows[dialog.flow].file.parsed.error = ZeroRows

C6_ZeroRowFileDiscarded ==
  [][ProcessesZeroRows =>
       /\ state'.cards = state.cards
       /\ state'.cardOrder = state.cardOrder
       /\ state'.assignments = state.assignments
       /\ cardSeq' = cardSeq]_vars

(***************************************************************************)
(* C7: after a master reload in diff mode, for every station id of the old *)
(* master that is absent from the new one, every card that was in that     *)
(* station's bucket is in the unclassified bucket with stationId '', and   *)
(* no card is lost or duplicated.                                          *)
(***************************************************************************)
\* the step applies a master file in diff mode
DiffReloadActs == last'.step = "MasterReadDone" /\ masterLoad = "diff" /\ task' = "autoAssign"

C7_DiffReloadUnclassifiesCards ==
  [][DiffReloadActs =>
       /\ DOMAIN state'.cards = DOMAIN state.cards
       /\ \A sid \in stationIds(state.stations) \ stationIds(state'.stations) :
            \A c \in DOMAIN state.cards :
              InBucket(state, sid, c) =>
                /\ InBucket(state', "", c)
                /\ state'.cards[c].stationId = ""
                /\ Occurrences(state', c) = 1]_vars

(***************************************************************************)
(* C8: deleting a station, and likewise removing its swimlane, deletes no  *)
(* card: the set of cards is unchanged, every card that was in the bucket  *)
(* of that station ends in the unclassified bucket with stationId '', and  *)
(* the buckets of all other stations are unchanged.                        *)
(***************************************************************************)
\* the step is the confirmed deletion of a station or removal of a swimlane
DeleteActs == last'.step \in {"ConfirmDeleteStation", "ConfirmDeleteSwimlane"}

C8_DeleteKeepsCards ==
  [][DeleteActs =>
       /\ DOMAIN state'.cards = DOMAIN state.cards
       /\ state'.cardOrder = state.cardOrder
       /\ \A c \in DOMAIN state.cards :
            IF InBucket(state, dialog.sid, c)
            THEN /\ InBucket(state', "", c)
                 /\ state'.cards[c] = [state.cards[c] EXCEPT !.stationId = ""]
            ELSE state'.cards[c] = state.cards[c]
       /\ \A k \in StationKeys(state) \ {dialog.sid} :
            /\ MapHas(state'.assignments, k)
            /\ MapGet(state'.assignments, k) = MapGet(state.assignments, k)]_vars

\* a station has been deleted, or its swimlane removed, and the two cards
\* that match it are unclassified with stationId ''
C8_Witness ==
  /\ last.step \in {"ConfirmDeleteStation", "ConfirmDeleteSwimlane"}
  /\ "B" \notin state.swimlaneIds
  /\ Cardinality(last.cards) = 2
  /\ \A c \in last.cards :
       /\ state.cards[c].stationId = ""
       /\ InBucket(state, "", c)
       /\ Occurrences(state, c) = 1
  /\ StationKeys(state) = {}

(***************************************************************************)
(* C9: in every reachable state no two stations of state.stations with     *)
(* _invalid = false share an id (master load in reset and diff mode,       *)
(* adding, editing and deleting a station preserve it).                    *)
(***************************************************************************)
C9_ValidStationIdsUnique ==
  \A i, j \in 1..Len(state.stations) :
    (/\ i # j
     /\ ~state.stations[i].invalid
     /\ ~state.stations[j].invalid) => state.stations[i].id # state.stations[j].id

\* the station form has been saved while the master's duplicated id A is
\* marked invalid and station B is valid
C9_Witness ==
  /\ last.step = "SaveStationForm"
  /\ \E i \in 1..Len(state.stations) :
       state.stations[i].id = "A" /\ state.stations[i].invalid
  /\ \E i \in 1..Len(state.stations) :
       state.stations[i].id = "B" /\ ~state.stations[i].invalid

(***************************************************************************)
(* C10: for any master file that has the required columns, an id that      *)
(* occurs on two or more accepted rows (rows having both a name and an id) *)
(* yields no valid station with that id and at least one duplicate-id      *)
(* error, and an id that occurs on exactly one accepted row yields exactly *)
(* one valid station.                                                      *)
(***************************************************************************)
\* the accepted rows of master m that carry id
AcceptedRows(m, id) ==
  { i \in 1..Len(m.rows) : m.rows[i].name # <<>> /\ m.rows[i].id = id }

\* the valid stations of result r that carry id
ValidStations(r, id) ==
  { i \in 1..Len(r.stations) : r.stations[i].id = id /\ ~r.stations[i].invalid }

C10_DuplicateIdsInvalidated ==
  (/\ call.fn = "parseMasterCSV"
   /\ call.result # Pending
   /\ requiredCols \subseteq call.arg.columns) =>
     \A id \in RowIds \ {""} :
       LET n == Cardinality(AcceptedRows(call.arg, id))
       IN  /\ n >= 2 =>
                /\ ValidStations(call.result, id) = {}
                /\ \E e \in 1..Len(call.result.errors) :
                     /\ call.result.errors[e].kind = "duplicate-id"
                     /\ call.result.errors[e].id = id
           /\ n = 1 => Cardinality(ValidStations(call.result, id)) = 1

(***************************************************************************)
(* C11: when the master file lacks one of the three required columns,      *)
(* parseMasterCSV returns no station and an error, and the master load     *)
(* (in either mode) leaves state.stations, swimlaneIds, cards, cardOrder   *)
(* and the assignment index as they were and starts no auto-assignment.    *)
(***************************************************************************)
C11_MissingColumnLoadChangesNothing ==
  [][\A master \in Masters :
       (MasterReadDone(master) /\ requiredCols \ master.columns # {}) =>
         /\ parseMasterCSV(master).stations = <<>>
         /\ parseMasterCSV(master).errors # <<>>
         /\ state' = state
         /\ task' = "idle"]_vars

\* a master load has ended without starting auto-assignment (the file lacked
\* a column) while a station with a swimlane and a card existed
C11_Witness ==
  /\ last.step = "MasterReadDone"
  /\ task = "idle"
  /\ Len(state.stations) > 0
  /\ state.swimlaneIds # {}
  /\ DOMAIN state.cards # {}

(***************************************************************************)
(* C12: within one batch the files are processed one at a time in drop     *)
(* order: the read of the next file begins only when the current file has  *)
(* been registered or discarded at the end of its read, or its read has    *)
(* failed, or its confirmation has been answered; one step registers at    *)
(* most one card, and only for a file being read or confirmed; and the     *)
(* batch starts its auto-assignment only after its last file.              *)
(***************************************************************************)
C12_OneFileAtATime ==
  [][/\ \A f \in Flows :
          /\ (flows'[f].pc = "reading" /\ flows[f].pc \notin {"idle", "reading"}) =>
               /\ flows[f].pc = "next"
               /\ flows[f].remaining > 0
               /\ flows'[f].remaining = flows[f].remaining - 1
          /\ (flows'[f].pc = "next" /\ flows[f].pc # "next") =>
               \/ /\ flows[f].pc = "reading"
                  /\ last'.step \in {"ObsReadDone", "ObsReadFail"}
               \/ /\ flows[f].pc = "dialog" /\ dialog.flow = f
                  /\ last'.step \in {"SkipOverwrite", "ConfirmOverwrite"}
          /\ (flows[f].pc = "reading" /\ flows'[f].pc = "reading") =>
               flows'[f] = flows[f]
          /\ (Continue(f) /\ task' = "autoAssign") =>
               /\ flows[f].remaining = 0
               /\ flows'[f].pc = "idle"
     /\ cardSeq' # cardSeq =>
          /\ cardSeq' = cardSeq + 1
          /\ \E f \in Flows : flows[f].pc \in {"reading", "dialog"} /\ flows'[f].pc = "next"
     /\ (task' = "autoAssign" /\ task = "idle" /\ last'.step = "Continue") =>
          \E f \in Flows : flows[f].pc = "next" /\ flows[f].remaining = 0]_vars

\* the second file of a batch is being read after the first was registered,
\* and the batch has not started its auto-assignment
C12_Witness ==
  /\ last.step = "Continue"
  /\ task = "idle"
  /\ \E f \in Flows :
       /\ flows[f].pc = "reading" /\ flows[f].isMultiple /\ flows[f].remaining = 0
       /\ \A g \in Flows \ {f} : flows[g].pc = "idle"
  /\ cardSeq = 1 /\ DOMAIN state.cards = {1}

(***************************************************************************)
(* C13: declining an overwrite confirmation ends the processing of that    *)
(* file only: when every read ends and the user answers every confirmation *)
(* shown, the batch whose confirmation was declined goes on to its later   *)
(* files and eventually ends, starting its final auto-assignment.          *)
(***************************************************************************)
C13_SkipContinuesBatch ==
  \A f \in Flows :
    (last.step = "SkipOverwrite" /\ flows[f].pc = "next") ~> (flows[f].pc = "idle")

\* C14: when the read or the decoding of an observation file fails, that file
\* is skipped: the state (stations, cards, cardOrder, assignment index) and the
\* card counter are as before, so the cards of earlier files are kept, no
\* dialog is raised, and the batch goes on: the step that follows starts the
\* read of the next file with one file fewer remaining, or, after the last
\* file, the batch's auto-assignment.
C14_ReadFailureSkipsFile ==
  [][ /\ \A f \in Flows :
           ObsReadFail(f) =>
             /\ state' = state
             /\ cardSeq' = cardSeq
             /\ dialog' = dialog
             /\ flows'[f].pc = "next"
             /\ flows'[f].remaining = flows[f].remaining
      /\ \A f \in Flows :
           (last.step = "ObsReadFail" /\ flows[f].pc = "next") =>
             IF flows[f].remaining > 0
             THEN /\ flows'[f].pc = "reading"
                  /\ flows'[f].remaining = flows[f].remaining - 1
                  /\ state' = state
             ELSE /\ flows'[f].pc = "idle"
                  /\ task' = "autoAssign"
                  /\ state' = state ]_vars

\* a failed read in a batch that registered a card before and has a file left
C14_Witness ==
  /\ last.step = "ObsReadFail"
  /\ state.cardOrder # <<>>
  /\ \E f \in Flows : flows[f].pc = "next" /\ flows[f].remaining > 0

\* the cards of S that record the observation of `file` under another file
\* name: their first datetime is the instant of the file's first datetime
SameObservation(S, file) ==
  { c \in DOMAIN S.cards :
      /\ S.cards[c].fileName # file.fileName
      /\ _parseDateTimeMs(file.parsed.firstDateTime) # <<>>
      /\ _parseDateTimeMs(S.cards[c].parsed.firstDateTime)
           = _parseDateTimeMs(file.parsed.firstDateTime) }

\* maxDepth divided by the row count, as a fraction
DepthPerRow(parsed) == <<parsed.maxDepth[1], parsed.nRows>>

\* the step put card n, made of `file`, in the place of card c
Superseded(c, n, file) ==
  /\ DOMAIN state'.cards = ((DOMAIN state.cards) \ {c}) \cup {n}
  /\ n \notin DOMAIN state.cards
  /\ state'.cards[n].fileName = file.fileName
  /\ state'.cards[n].parsed = file.parsed
  /\ state'.cards[n].stationId = state.cards[c].stationId
  /\ InBucket(state', state.cards[c].stationId, n)
  /\ \A o \in (DOMAIN state.cards) \ {c} : state'.cards[o] = state.cards[o]

\* C15: when the file whose read ends has a parseable first datetime that is,
\* as an instant, the first datetime of a card with another file name, no
\* confirmation is raised and exactly one of the two is kept: if the file's
\* depth resolution (maxDepth / row count) is strictly finer than the card's,
\* the file's card takes the place of that card, with its station; otherwise
\* the file is discarded and the state is unchanged.
C15_SameObservationKeepsFiner ==
  [][ \A f \in Flows, file \in Files :
        (ObsReadDone(f, file) /\ SameObservation(state, file) # {}) =>
          /\ dialog' = dialog
          /\ \E c \in SameObservation(state, file) :
               IF FractionLess(DepthPerRow(file.parsed),
                               DepthPerRow(state.cards[c].parsed))
               THEN Superseded(c, cardSeq', file)
               ELSE state' = state ]_vars

\* what the matcher reads of a card: everything but the station it is filed under
MatcherInput(card) == [card EXCEPT !.stationId = ""]

\* C16: auto-assignment is a function of the unclassified cards and the
\* stations: in every reachable state, running it leaves the stations, the
\* swimlanes, the set and the order of the cards and, of every card, the file
\* name and the parsed content as they were (only the filing of cards changes),
\* and running it a second time right after the first changes nothing: the
\* assignment index, and the whole state, are those after the first run.
C16_AutoAssignPureIdempotent ==
  /\ _autoAssignUnclassified(state).stations = state.stations
  /\ _autoAssignUnclassified(state).swimlaneIds = state.swimlaneIds
  /\ _autoAssignUnclassified(state).cardOrder = state.cardOrder
  /\ DOMAIN _autoAssignUnclassified(state).cards = DOMAIN state.cards
  /\ \A c \in DOMAIN state.cards :
       MatcherInput(_autoAssignUnclassified(state).cards[c]) = MatcherInput(state.cards[c])
  /\ _autoAssignUnclassified(_autoAssignUnclassified(state))
       = _autoAssignUnclassified(state)
  /\ (last.step = "AutoAssignStep" => _autoAssignUnclassified(state) = state)

\* auto-assignment has just filed two cards under one station, and a second
\* run would move nothing
C16_Witness ==
  /\ last.step = "AutoAssignStep"
  /\ Cardinality(last.cards) = 2
  /\ \A c \in last.cards : InBucket(state, "B", c) /\ ~InBucket(state, "", c)
  /\ _autoAssignUnclassified(state).assignments = state.assignments

\* the call of fn has returned
Returned(fn) == call.fn = fn /\ call.result # Pending

\* the assignments of the call whose card carries no parse error
ErrorFree(assignments) ==
  { i \in 1..Len(assignments) : assignments[i].card.parsed.error = NoError }

\* the number of data rows of the error-free assignments from index i on
RECURSIVE DataRowCount(_, _)
DataRowCount(assignments, i) ==
  IF i > Len(assignments) THEN 0
  ELSE (IF i \in ErrorFree(assignments)
        THEN Len(assignments[i].card.parsed.dataRows) ELSE 0)
       + DataRowCount(assignments, i + 1)

\* C17: the raw merge emits exactly one output row for every data row of
\* every assignment whose card has no parse error, carrying that row's
\* cells, and no other row; the output rows are ordered by assignment and,
\* within an assignment, by the order of the data rows; so the number of
\* output rows is the sum of the data-row counts of the error-free cards.
C17_RawMergeOneRowPerDataRow ==
  Returned("mergeAllData") =>
    /\ Len(call.result.rows) = DataRowCount(call.arg, 1)
    /\ \A i \in ErrorFree(call.arg) :
         \A j \in 1..Len(call.arg[i].card.parsed.dataRows) :
           /\ Cardinality({ k \in 1..Len(call.result.rows) :
                              /\ call.result.rows[k].file = i
                              /\ call.result.rows[k].src = j }) = 1
           /\ \A k \in 1..Len(call.result.rows) :
                (call.result.rows[k].file = i /\ call.result.rows[k].src = j) =>
                   /\ call.result.rows[k].data = call.arg[i].card.parsed.dataRows[j]
                   /\ call.result.rows[k].fileName = call.arg[i].card.fileName
    /\ \A k \in 1..Len(call.result.rows) :
         /\ call.result.rows[k].file \in ErrorFree(call.arg)
         /\ call.result.rows[k].src
              \in 1..Len(call.arg[call.result.rows[k].file].card.parsed.dataRows)
    /\ \A k1, k2 \in 1..Len(call.result.rows) :
         k1 < k2 =>
           \/ call.result.rows[k1].file < call.result.rows[k2].file
           \/ /\ call.result.rows[k1].file = call.result.rows[k2].file
              /\ call.result.rows[k1].src < call.result.rows[k2].src

\* a merge of an error card followed by a card of two data rows, the second
\* without a parseable depth
C17_Witness ==
  /\ Returned("mergeAllData")
  /\ Len(call.arg) = 2
  /\ ErrorFree(call.arg) = {2}
  /\ Len(call.result.rows) = 2
  /\ call.result.rows[2].depthBin = <<>>

\* the rows of a file that fall into the bin `key`, in file order
BinGroup(parsed, key) ==
  SelectSeq(fileRowsOf(parsed.headerRow, parsed.dataRows, depthIndex(parsed.headerRow)),
            LAMBDA r : r.depthBin = key)

\* the first 20 non-empty values of column col in the rows of a group
FirstTwenty(vals) == SubSeq(vals, 1, IF Len(vals) < 20 THEN Len(vals) ELSE 20)
OwnSample(headers, groupRows, col) ==
  FirstTwenty(SelectSeq([i \in 1..Len(groupRows) |-> rowValue(headers, groupRows[i], col)],
                        LAMBDA v : v # <<>>))

\* at least 80% of the sample parse as numbers
MostlyNumbers(vals) ==
  /\ vals # <<>>
  /\ 5 * Cardinality({ i \in 1..Len(vals) : parseFloat(vals[i]) # <<>> }) >= 4 * Len(vals)

\* a text that String(number) produces: digits without a redundant leading
\* zero, with at most one fractional digit, which is not 0
IsNumeral(t) ==
  /\ DigitRun(t, 1, Len(t)) >= 1
  /\ (DigitRun(t, 1, Len(t)) = 1 \/ t[1] # "0")
  /\ \/ Len(t) = DigitRun(t, 1, Len(t))
     \/ /\ Len(t) = DigitRun(t, 1, Len(t)) + 2
        /\ t[Len(t) - 1] = "."
        /\ t[Len(t)] \in DigitChars \ {"0"}

\* a text cell and a mean cell are written as the same characters
WrittenAlike(t, m) ==
  /\ t.kind = "text" /\ m.kind = "mean"
  /\ IsNumeral(t.text)
  /\ parseFloat(t.text)[1] * m.n = m.sum

\* the two cells are the same in the exported file
SameOutput(a, b) == a = b \/ WrittenAlike(a, b) \/ WrittenAlike(b, a)

\* the cell of column col in output row `row`, as the rule of C18 decides it
\* from the rows of the row's own group
CellAsOwnGroupDecides(parsed, row, col, c) ==
  firstValueColumn(parsed.headerRow, col, firstValueIndexes(parsed.headerRow))
  \/ SameOutput(row.data[c],
       IF MostlyNumbers(OwnSample(parsed.headerRow, BinGroup(parsed, row.depthBin), col))
       THEN cellMean(parseableValues(parsed.headerRow, BinGroup(parsed, row.depthBin), col))
       ELSE cellText(rowValue(parsed.headerRow, BinGroup(parsed, row.depthBin)[1], col)))

\* C18: in the binned average, for every output row (one bin group of one
\* file) and every data column, the cell is the mean of the group's parseable
\* values iff at least 80% of the group's own first 20 non-empty values parse
\* as numbers, and otherwise the value of the group's first row, whatever
\* other groups and other files contain.
C18_NumericDecidedPerGroup ==
  Returned("calculateDepthBinAverages") =>
    \A k \in 1..Len(call.result.rows) :
      \A c \in 1..Len(call.result.headers) :
        CellAsOwnGroupDecides(call.arg[call.result.rows[k].file].card.parsed,
                                    call.result.rows[k], call.result.headers[c], c)

\* C19: in the binned average every error-free file contributes exactly one
\* output row per distinct depth bin of its rows, the files appear in
\* assignment order, and within a file the rows of the numeric bins are in
\* ascending bin order, whatever the order of the depths in the file.
C19_BinsOncePerFileAscending ==
  Returned("calculateDepthBinAverages") =>
    /\ \A i \in ErrorFree(call.arg) :
         \A key \in { r.depthBin : r \in SeqToSet(
                        fileRowsOf(call.arg[i].card.parsed.headerRow,
                                   call.arg[i].card.parsed.dataRows,
                                   depthIndex(call.arg[i].card.parsed.headerRow))) } :
           Cardinality({ k \in 1..Len(call.result.rows) :
                           /\ call.result.rows[k].file = i
                           /\ call.result.rows[k].depthBin = key }) = 1
    /\ \A k \in 1..Len(call.result.rows) :
         /\ call.result.rows[k].file \in ErrorFree(call.arg)
         /\ BinGroup(call.arg[call.result.rows[k].file].card.parsed,
                     call.result.rows[k].depthBin) # <<>>
    /\ \A k1, k2 \in 1..Len(call.result.rows) :
         k1 < k2 =>
           /\ call.result.rows[k1].file <= call.result.rows[k2].file
           /\ ( /\ call.result.rows[k1].file = call.result.rows[k2].file
                /\ call.result.rows[k1].depthBin # <<>>
                /\ call.result.rows[k2].depthBin # <<>> )
              => call.result.rows[k1].depthBin[1] < call.result.rows[k2].depthBin[1]

\* C20: for every row of cells over an alphabet with comma, double quote,
\* space and line break, tokenizing the line the serializer produces for the
\* row returns the cells of the row exactly.
C20_CsvRoundTripExact ==
  Returned("csvRoundTrip") => call.result.cells = call.arg

RawDepths(parsed) ==
  { parseFloat(cellAt(parsed.dataRows[j], depthIndex(parsed.headerRow)))[1] :
      j \in { r \in 1..Len(parsed.dataRows) :
                parseFloat(cellAt(parsed.dataRows[r], depthIndex(parsed.headerRow))) # <<>> } }

\* the output rows of the merge that come from assignment i
RowsOfFile(i) == { k \in 1..Len(call.result.rows) : call.result.rows[k].file = i }

\* C22: for every file of the raw merge: if its raw maximum depth is below
\* 1.0 m (or it has no depth) every row has B-1m flag 0; if it is at least
\* 1.0 m, a row is flagged iff its bin is the file's maximum bin minus 1.0, so
\* all rows of that one bin and no other row carry the flag.
C22_FlagOnBinBelowDeepest ==
  Returned("mergeAllData") =>
    \A i \in ErrorFree(call.arg) :
      IF RawDepths(call.arg[i].card.parsed) = {}
         \/ Max(RawDepths(call.arg[i].card.parsed)) < 10
      THEN \A k \in RowsOfFile(i) : call.result.rows[k].b1mFlag = 0
      ELSE \A k \in RowsOfFile(i) :
             (call.result.rows[k].b1mFlag = 1) <=>
               /\ call.result.rows[k].depthBin # <<>>
               /\ call.result.rows[k].depthBin[1]
                    = calculateDepthBin(Max(RawDepths(call.arg[i].card.parsed))) - 10

\* a packed latitude DDMM.MMMM of at most 90 degrees and less than 60 minutes
IsPackedLat(s) ==
  /\ Len(s) = 9 /\ DigitsAt(s, 1, 4) /\ s[5] = "." /\ DigitsAt(s, 6, 4)
  /\ ParseInt(SubSeq(s, 1, 2)) <= 90 /\ ParseInt(SubSeq(s, 3, 4)) < 60

\* a packed longitude DDDMM.MMMM of at most 180 degrees and less than 60 minutes
IsPackedLon(s) ==
  /\ Len(s) = 10 /\ DigitsAt(s, 1, 5) /\ s[6] = "." /\ DigitsAt(s, 7, 4)
  /\ ParseInt(SubSeq(s, 1, 3)) <= 180 /\ ParseInt(SubSeq(s, 4, 5)) < 60

WellFormedPosition(s) ==
  /\ Len(split(s)) = 4
  /\ IsPackedLat(split(s)[1]) /\ split(s)[2] \in {<<"N">>, <<"S">>}
  /\ IsPackedLon(split(s)[3]) /\ split(s)[4] \in {<<"E">>, <<"W">>}

IsNullResult(r) == "null" \in DOMAIN r

Magnitude(x) == IF x < 0 THEN 0 - x ELSE x

\* the packed value of a coordinate: its whole degrees and its minutes
\* rounded to 0.0001
packedOf(r) ==
  (Magnitude(r) \div 10000000) * 1000000
  + ((Magnitude(r) % 10000000) * 60 + 500) \div 1000

\* a coordinate that is re-encoded and converted again
reconverted(r) ==
  IF r < 0 THEN 0 - degreesOf(packedOf(r)) ELSE degreesOf(packedOf(r))

\* C23: a well-formed coordinate string (latitude degrees at most 90,
\* longitude degrees at most 180, minutes below 60) converts to a latitude in
\* [-90, 90] and a longitude in [-180, 180], on the negative side exactly for
\* S and W, and re-encoding and reconverting stays within 1e-6 degrees; fewer
\* than four parts or an unparsable number give null.
C23_ConvertedCoordinateInRange ==
  Returned("convertGPSCoordinate") =>
    /\ WellFormedPosition(call.arg) =>
         /\ ~IsNullResult(call.result)
         /\ call.result.lat >= 0 - 900000000 /\ call.result.lat <= 900000000
         /\ call.result.lon >= 0 - 1800000000 /\ call.result.lon <= 1800000000
         /\ IF split(call.arg)[2] = <<"S">>
            THEN call.result.lat <= 0 ELSE call.result.lat >= 0
         /\ IF split(call.arg)[4] = <<"W">>
            THEN call.result.lon <= 0 ELSE call.result.lon >= 0
         /\ Magnitude(reconverted(call.result.lat) - call.result.lat) <= 10
         /\ Magnitude(reconverted(call.result.lon) - call.result.lon) <= 10
    /\ ( \/ call.arg = <<>>
         \/ Len(split(trim(call.arg))) < 4
         \/ parsePacked(trim(split(trim(call.arg))[1])) = <<>>
         \/ parsePacked(trim(split(trim(call.arg))[3])) = <<>> )
       => IsNullResult(call.result)

\* card c of S is listed in a bucket of the assignment index
InSomeBucket(S, c) == \E i \in 1..Len(S.assignments) : InBucket(S, S.assignments[i].key, c)

\* card c of S gives rows under the decisions of the coroutine co
Exported(S, co, c) ==
  /\ InSomeBucket(S, c)
  /\ S.cards[c].parsed.error = NoError
  /\ ~(co.excludeUnclassified /\ InBucket(S, "", c))
  /\ ~(co.excludeWarning /\ S.cards[c].parsed.warningFallback)

\* C24: when an export generates its output, a card has rows in it iff it is
\* in a bucket, has no parse error, is not unclassified while the user excluded
\* the unclassified files and has no fallback header while the user excluded
\* those; and if there is an unclassified card (a fallback-header card that
\* would be included), the user has been asked about them before.
C24_ExportAsksBeforeOutput ==
  [][ (last'.step = "outputCSV" /\ call'.result.pc = "done") =>
        /\ \A c \in DOMAIN state'.cards :
             c \in call'.result.cards <=> Exported(state', call'.result, c)
        /\ (\E c \in DOMAIN state'.cards : InBucket(state', "", c))
             => call'.result.askedUnclassified
        /\ (\E c \in DOMAIN state'.cards :
              /\ state'.cards[c].parsed.warningFallback
              /\ Exported(state', [call'.result EXCEPT !.excludeWarning = FALSE], c))
             => call'.result.askedWarning ]_vars

\* a line that, blanks around it apart, is the marker [Item]
IsMarkerLine(line) == trim(line) = ItemMarker

\* a line with the observation-datetime keyword: the native word, or 'date'
\* in any letter case
HasDateKeyword(line) ==
  Includes(line, ObsDateTimeWord) \/ Includes(toLowerCase(line), <<"d", "a", "t", "e">>)

MarkerPlaces(lines) == { i \in 1..Len(lines) : IsMarkerLine(lines[i]) }
KeywordPlaces(lines) ==
  { i \in 1..Min(Len(lines), HeaderScanLines) : HasDateKeyword(lines[i]) }

Least(S) == CHOOSE x \in S : \A y \in S : x <= y

\* the header index (from 0) the strict priority gives
ChosenHeaderIdx(lines) ==
  IF MarkerPlaces(lines) # {} THEN Least(MarkerPlaces(lines))
  ELSE IF KeywordPlaces(lines) # {} THEN Least(KeywordPlaces(lines)) - 1
  ELSE FallbackHeaderIdx

\* C25: the header row is the line after the first [Item] line; else the first
\* of the first 150 lines with the observation-datetime keyword; else line
\* index 68.  The fallback flag is set iff the third strategy was used, and a
\* chosen index at or past the end of the file gives the error 'header row
\* not found' and no data rows.
C25_HeaderByStrictPriority ==
  Returned("parseObservationCSV") =>
    /\ call.result.warningFallback
         = (MarkerPlaces(call.arg) = {} /\ KeywordPlaces(call.arg) = {})
    /\ IF ChosenHeaderIdx(call.arg) >= Len(call.arg)
       THEN call.result.error = NoHeader /\ call.result.dataRows = <<>>
       ELSE /\ call.result.error # NoHeader
            /\ call.result.headerRowIndex = ChosenHeaderIdx(call.arg)

\* C26: without an [Item] line, a line among the first 150 that contains
\* 'date' in any letter case ('date', 'Date', 'DATE') counts as the header:
\* the first such line is the header row and the fallback is not used.
C26_DateKeywordInAnyCase ==
  (Returned("parseObservationCSV") /\ MarkerPlaces(call.arg) = {}) =>
    \A i \in 1..Min(Len(call.arg), HeaderScanLines) :
      Includes(toLowerCase(call.arg[i]), <<"d", "a", "t", "e">>) =>
        /\ ~call.result.warningFallback
        /\ call.result.headerRowIndex >= 0
        /\ call.result.headerRowIndex <= i - 1

\* C27: maxDepth of a parsed file is the greatest parseable value of its depth
\* column over all data rows, null when there is none; the depth column is the
\* first header with the native word for depth or 'depth' in any letter case,
\* the column the merge engine bins on.
C27_MaxDepthOfMergeDepthColumn ==
  (Returned("parseObservationCSV") /\ call.result.error = NoError) =>
    call.result.maxDepth
      = IF depthValues(call.result.dataRows, depthIndex(call.result.headerRow)) = {}
        THEN <<>>
        ELSE << Max(depthValues(call.result.dataRows,
                                depthIndex(call.result.headerRow))) >>

\* the quotes of line before place i, and the commas outside quotes: a place
\* is outside quotes when an even number of quotes precedes it
QuotesBefore(line, i) == Cardinality({ j \in 1..(i - 1) : line[j] = "\"" })
OutsideCommas(line) ==
  { i \in 1..Len(line) : line[i] = "," /\ QuotesBefore(line, i) % 2 = 0 }

\* the last quote of line opens a quotation that the line does not close
Unterminated(line) == QuotesBefore(line, Len(line) + 1) % 2 = 1
LastQuote(line) == Max({ j \in 1..Len(line) : line[j] = "\"" })
\* the place of the last comma outside quotes, 0 without one
LastOutsideComma(line) == Max(OutsideCommas(line) \cup {0})

\* C28: the tokenizer returns one field more than there are commas outside
\* quotes; after a quote that is never closed the rest of the line, commas
\* included, is literal text of the last field (which ends are trimmed as those
\* of every field).
C28_FieldsByCommasOutsideQuotes ==
  Returned("parseCsvLine") =>
    /\ Len(call.result.fields) = 1 + Cardinality(OutsideCommas(call.arg))
    /\ ( /\ Unterminated(call.arg)
         /\ QuotesBefore(call.arg, LastQuote(call.arg))
              = QuotesBefore(call.arg, LastOutsideComma(call.arg) + 1) )
       => call.result.fields[Len(call.result.fields)]
            = trim(SubSeq(call.arg, LastOutsideComma(call.arg) + 1,
                          LastQuote(call.arg) - 1)
                   \o SubSeq(call.arg, LastQuote(call.arg) + 1, Len(call.arg)))

C28_Witness ==
  /\ Returned("parseCsvLine")
  /\ call.arg = <<"a", ",", "\"", "a", ",">>
  /\ call.result.fields = << <<"a">>, <<"a", ",">> >>

\* the rows of a master file that name a station with id `id`; row j is on
\* line j + 1 of the file, the header on line 1
RowsWithId(rows, id) ==
  { j \in 1..Len(rows) : rows[j].id = id /\ rows[j].name # <<>> }

\* C29: every duplicate-id diagnostic of an id that two rows carry names the
\* line of the current row and the line of the row where the id first
\* occurred, whatever rows before them were skipped or rejected (stated for
\* the ids that are no key of Object.prototype).
C29_DuplicateDiagnosticLines ==
  Returned("parseMasterCSV") =>
    \A k \in 1..Len(call.result.errors) :
      ( /\ call.result.errors[k].kind = "duplicate-id"
        /\ call.result.errors[k].id \notin ObjectPrototypeKeys
        /\ Cardinality(RowsWithId(call.arg.rows, call.result.errors[k].id)) >= 2 ) =>
        /\ call.result.errors[k].current - 1
             \in RowsWithId(call.arg.rows, call.result.errors[k].id)
        /\ call.result.errors[k].first - 1
             = Least(RowsWithId(call.arg.rows, call.result.errors[k].id))

\* C30: a master load whose parsed file has no valid station (every station
\* entry is invalid, or there is none) is rejected: it changes nothing of the
\* state and starts no auto-assignment.
C30_LoadNeedsValidStation ==
  [][\A master \in LoadMasters :
       ( /\ MasterReadDone(master)
         /\ \A i \in 1..Len(parseMasterCSV(master).stations) :
              parseMasterCSV(master).stations[i].invalid ) =>
         /\ state' = state
         /\ task' = "idle"]_vars

\* C31: after a master load in reset mode (the first load of a session
\* included) every card that existed before the load still exists, is in the
\* unclassified bucket and has stationId '', so auto-assignment and export
\* still see it; this holds for cards dropped before any master was loaded.
ResetLoadActs == last'.step = "MasterReadDone" /\ masterLoad = "reset" /\ task' = "autoAssign"

C31_ResetLoadKeepsCardsUnclassified ==
  [][ResetLoadActs =>
       \A c \in DOMAIN state.cards :
         /\ c \in DOMAIN state'.cards
         /\ InBucket(state', "", c)
         /\ state'.cards[c].stationId = ""]_vars

\* C32: 'overwrite all' suppresses the confirmation only for the later
\* duplicate files of the batch in which it was chosen: a duplicate file of
\* any other batch, dropped later or processed in an overlapping time window,
\* is never overwritten without its own confirmation.  The button is offered
\* only to a batch of several files, so a batch of a single file is always
\* another batch than the one that chose it.
SingleFileBatch(f) == ~flows[f].isMultiple

C32_OverwriteAllStaysInItsBatch ==
  [][\A f \in Flows, file \in Files :
       ( /\ ObsReadDone(f, file)
         /\ HasDuplicate(state, file)
         /\ SingleFileBatch(f) ) =>
         /\ dialog' = [kind |-> "overwrite", sid |-> "", flow |-> f]
         /\ state' = state]_vars

\* C33: no confirmation request is ever orphaned: a flow suspended on a
\* confirmation dialog is eventually resumed once the user has dealt with the
\* dialogs shown, also when another flow opens a confirmation while the first
\* one is pending.
Suspended(f) == flows[f].pc \in {"dialog", "orphaned"}

C33_SuspendedFlowIsResumed ==
  \A f \in Flows : (flows[f].pc = "dialog") ~> ~Suspended(f)

\* C34: in every reachable state, for every card and every bucket key s, the
\* card's stationId is s if and only if the card's id is listed in
\* state.assignments[s]: after any sequence of moves, auto-assignments, master
\* loads (reset and diff), swimlane resets and station deletions.
BucketKeys(S) == { S.assignments[i].key : i \in 1..Len(S.assignments) }

C34_StationIdAgreesWithBucket ==
  Settled =>
    \A c \in DOMAIN state.cards :
      \A s \in BucketKeys(state) \cup {state.cards[c].stationId} :
        (state.cards[c].stationId = s) <=> InBucket(state, s, c)

\* C35: every card id stored in any bucket of state.assignments, under any
\* key, and every id of state.cardOrder refers to an existing card, and
\* cardOrder holds each existing card id exactly once: deleted, overwritten
\* or superseded cards leave no id behind.
CountIn(seq, x) == Cardinality({ i \in 1..Len(seq) : seq[i] = x })

C35_NoDanglingCardId ==
  /\ \A i \in 1..Len(state.assignments) :
       SeqToSet(state.assignments[i].ids) \subseteq DOMAIN state.cards
  /\ SeqToSet(state.cardOrder) \subseteq DOMAIN state.cards
  /\ \A c \in DOMAIN state.cards : CountIn(state.cardOrder, c) = 1

\* C36: editing a station through the station form, including changing its
\* id, does not detach its cards: when before the save every bucket that
\* holds cards under a non-empty key is keyed by the id of a station of
\* state.stations, the same is true after it.
BucketsAttached(S) ==
  \A i \in 1..Len(S.assignments) :
    (S.assignments[i].key # "" /\ S.assignments[i].ids # <<>>) =>
      S.assignments[i].key \in stationIds(S.stations)

C36_StationEditKeepsCardsAttached ==
  [][\A e \in StationIdSet, form \in FormInputs :
       (SaveStationForm(e, form) /\ BucketsAttached(state)) =>
         BucketsAttached(state')]_vars

\* C37: the assignment reached by activating a set of stations does not
\* depend on how they are activated: adding the swimlane of X and then that
\* of Y, adding Y and then X, and adding all swimlanes at once leave every card
\* in the same bucket; a card that matches both X and Y ends unclassified in
\* all three cases.
\* addSwimlane and addAllSwimlanes with their trailing auto-assignment
addSwimlaneRun(S, stationId) ==
  IF addSwimlane(S, stationId) = S THEN S
  ELSE _autoAssignUnclassified(addSwimlane(S, stationId))

addAllSwimlanesRun(S) ==
  IF addAllSwimlanes(S) = S THEN S
  ELSE _autoAssignUnclassified(addAllSwimlanes(S))

\* the valid stations of S that have no swimlane
InactiveIds(S) ==
  { S.stations[i].id : i \in { j \in 1..Len(S.stations) :
      ~S.stations[j].invalid /\ S.stations[j].id \notin S.swimlaneIds } }

SameBuckets(S1, S2) ==
  \A c \in DOMAIN S1.cards, k \in BucketKeys(S1) \cup BucketKeys(S2) :
    InBucket(S1, k, c) <=> InBucket(S2, k, c)

C37_ActivationOrderIrrelevant ==
  Settled =>
    \A X, Y \in StationIdSet :
      (X # Y /\ InactiveIds(state) = {X, Y}) =>
        /\ SameBuckets(addSwimlaneRun(addSwimlaneRun(state, X), Y),
                       addAllSwimlanesRun(state))
        /\ SameBuckets(addSwimlaneRun(addSwimlaneRun(state, Y), X),
                       addAllSwimlanesRun(state))

\* C38: no two cards have first datetimes that parse to the same timestamp,
\* whatever the order of the drops and the answers to the confirmations.
C38_OneCardPerTimestamp ==
  \A c1, c2 \in DOMAIN state.cards :
    ( /\ c1 # c2
      /\ _parseDateTimeMs(state.cards[c1].parsed.firstDateTime) # <<>> ) =>
      _parseDateTimeMs(state.cards[c1].parsed.firstDateTime)
        # _parseDateTimeMs(state.cards[c2].parsed.firstDateTime)

\* C39: a data row whose depth cell is missing or not numeric never carries
\* the B-1m flag: in the raw merge its output row has flag 0, and in the binned
\* average the output row of the rows without depth has flag 0.
C39_NoDepthNoFlag ==
  (Returned("mergeAllData") \/ Returned("calculateDepthBinAverages")) =>
    \A k \in 1..Len(call.result.rows) :
      call.result.rows[k].depthBin = <<>> => call.result.rows[k].b1mFlag = 0

\* C40: moveCard(c, s) changes only card c: it takes c out of the bucket
\* that lists it and appends it at the end of bucket s, sets its stationId to
\* s, and leaves the membership and order of all other cards, the set of
\* cards, cardOrder, the station list and the swimlanes unchanged; it changes
\* nothing when c does not exist or is already in bucket s.
Without(seq, c) == SelectSeq(seq, LAMBDA x : x # c)

MovedTo(S, T, c, s) ==
  /\ \A k \in BucketKeys(S) \cup BucketKeys(T) \cup {s} :
       MapGetOrEmpty(T.assignments, k)
         = Without(MapGetOrEmpty(S.assignments, k), c)
             \o (IF k = s THEN <<c>> ELSE <<>>)
  /\ T.cards = [S.cards EXCEPT ![c].stationId = s]
  /\ T.cardOrder = S.cardOrder
  /\ T.stations = S.stations
  /\ T.swimlaneIds = S.swimlaneIds

C40_MoveCardChangesOnlyThatCard ==
  [][\A c \in CardIds, s \in StationIdSet \cup {""} :
       /\ MoveCard(c, s) =>
            IF InBucket(state, s, c) THEN state' = state
            ELSE MovedTo(state, state', c, s)
       /\ c \notin DOMAIN state.cards => moveCard(state, c, s) = state]_vars

====
